---- MODULE Spec2Model ----
(***************************************************************************)
(* A model of the Gabor-modulated complex convolution layer of IGCN:       *)
(* igcn/cmplx_modules.py (IGaborCmplx, IGConvCmplx, ConvCmplx, ReLUCmplx,  *)
(* MaxPoolCmplx), the complex tensor helpers of igcn/cmplx.py, and of      *)
(* segmentation.py the checkpoint loader, create_model and                 *)
(* get_metrics_criterion.                                                  *)
(*                                                                         *)
(* Tensors are held in a heap of cells addressed by references, as Python  *)
(* holds them: assigning an attribute rebinds the reference, and a tensor  *)
(* saved by an autograd graph stays what it was.                           *)
(***************************************************************************)
EXTENDS Integers, Sequences, FiniteSets, TLC

\* ------------------------------------------------------------------ bounds
\* Gabor parameter tensors are the values 0..MaxParam.
MaxParam == 1
\* The kernels of ReConv and ImConv are drawn from 0..MaxWeight.
MaxWeight == 1
\* Autograd graphs of forward calls that may be kept for a later backward.
MaxGraphs == 1
\* Base kernels of the layer of the cache model (output_features // no_g).
BaseKernels == 2
\* The number of Gabor filters of the layer of the cache model
\* (the default of IGConvCmplx.__init__).
NoG == 2

ParamVals == 0..MaxParam
WeightVals == 0..MaxWeight
Orientations == 1..NoG
Kernels == 1..BaseKernels

\* --------------------------------------------------------------- variables
VARIABLES
    gabor_params,   \* IGaborCmplx.gabor_params: the learnable Gabor parameters
    ReConv,         \* IGConvCmplx.ReConv.weight: real kernel of each base kernel
    ImConv,         \* IGConvCmplx.ImConv.weight: imaginary kernel of each base kernel
    gabor_filters,  \* IGaborCmplx.gabor_filters: reference to the cached bank
    calc_filters,   \* IGaborCmplx.calc_filters: TRUE = Stale, FALSE = Valid
    heap,           \* the tensors alive: reference -> cell
    graphs,         \* autograd graphs of forwards not yet freed
    has_grad,       \* the parameters hold a gradient (a backward has run)
    lastOp,         \* the operation performed last
    sinceFwd,       \* what has happened since the last forward
    fwd,            \* what the forward just performed did and returned
    bwd,            \* what the backward just performed read
    conv,           \* a layer under construction and its forward call (SpecLayer)
    pooling,        \* a spatial pooling call (SpecPool)
    call,           \* a call of a helper of igcn/cmplx.py or of load (SpecCmplx)
    net             \* two IGConvCmplx instances of one network (SpecNet)

cacheVars == <<gabor_params, ReConv, ImConv, gabor_filters, calc_filters, heap,
               graphs, has_grad, lastOp, sinceFwd, fwd, bwd>>
vars == <<gabor_params, ReConv, ImConv, gabor_filters, calc_filters, heap,
          graphs, has_grad, lastOp, sinceFwd, fwd, bwd, conv, pooling, call, net>>

\* ------------------------------------------------------------ pure helpers
\* igcn/igabor.py gabor_cmplx followed by unsqueeze(2): the bank of NoG
\* complex filters, a pure function of the parameters (one kernel entry per
\* filter is kept).  Different parameters give different banks.
gabor_cmplx(params) ==
    [g \in Orientations |-> <<params + g, 2 * params + 1>>]

\* The kernels ReConv / ImConv hold for the weight value w: kernel o holds
\* w + o - 1, so that the base kernels differ from one another.
KernelOf(w) == [o \in Kernels |-> w + o - 1]

\* cmplx(real, imag): the two components stacked on a leading axis.
cmplx(real, imag) == <<real, imag>>

\* The smallest reference no live tensor has.
NewRef(h) ==
    CHOOSE r \in 0..Cardinality(DOMAIN h) :
        /\ r \notin DOMAIN h
        /\ \A q \in 0..Cardinality(DOMAIN h) : q \notin DOMAIN h => r <= q

\* Tensors no attribute and no graph refers to are freed.
Collect(h, ref, gs) ==
    [r \in ({ref} \cup {g.saved : g \in gs}) \cap DOMAIN h |-> h[r]]

\* ---------------------------------------------------------- IGaborCmplx
\* The uninitialised contents torch.Tensor(2, no_g, 1, 1, kh, kw) may hold.
Garbage == {[g \in Orientations |-> <<0, 0>>], [g \in Orientations |-> <<7, 7>>]}

\* A variant of IGaborCmplx_init that starts with the flag cleared (Valid).
IGaborCmplx_init_valid(junk) ==
    [heap          |-> (0 :> [bank |-> junk, init |-> FALSE]),
     gabor_filters |-> 0,
     calc_filters  |-> FALSE]

\* IGaborCmplx.__init__: the buffer is allocated uninitialised and the flag
\* says the bank needs calculating.
IGaborCmplx_init(junk) ==
    [heap          |-> (0 :> [bank |-> junk, init |-> FALSE]),
     gabor_filters |-> 0,
     calc_filters  |-> TRUE]

\* A variant of generate_gabor_filters that leaves the flag set.
generate_gabor_filters_keepflag(h, ref, params) ==
    LET r == NewRef(h) IN
    [heap          |-> [q \in DOMAIN h \cup {r} |->
                           IF q = r THEN [bank |-> gabor_cmplx(params), init |-> TRUE]
                                    ELSE h[q]],
     gabor_filters |-> r,
     calc_filters  |-> TRUE]

\* A variant of generate_gabor_filters that writes the bank into the tensor
\* the attribute refers to (gabor_filters.copy_) instead of rebinding it.
generate_gabor_filters_inplace(h, ref, params) ==
    [heap          |-> [q \in DOMAIN h |->
                           IF q = ref THEN [bank |-> gabor_cmplx(params), init |-> TRUE]
                                      ELSE h[q]],
     gabor_filters |-> ref,
     calc_filters  |-> FALSE]

\* IGaborCmplx.generate_gabor_filters: the bank is generated from the current
\* parameters into a new tensor, the attribute is rebound to it and the flag
\* is cleared.
generate_gabor_filters(h, ref, params) ==
    LET r == NewRef(h) IN
    [heap          |-> [q \in DOMAIN h \cup {r} |->
                           IF q = r THEN [bank |-> gabor_cmplx(params), init |-> TRUE]
                                    ELSE h[q]],
     gabor_filters |-> r,
     calc_filters  |-> FALSE]

\* A variant of set_filter_calc that flips the flag.
set_filter_calc_flips(flag) == ~flag

\* A variant of set_filter_calc that leaves the flag as it is.
set_filter_calc_keeps(flag) == flag

\* IGaborCmplx.set_filter_calc: the value the backward hook gives the flag.
set_filter_calc(flag) == TRUE

\* out = self.gabor_filters * x.unsqueeze(1); out.view(2, -1, ...):
\* the stacked tensors are multiplied entry by entry, the real parts with the
\* real parts and the imaginary parts with the imaginary parts, and the
\* orientation axis (major) is merged with the kernel axis (minor).
Modulate(bank, x) ==
    [c \in 1..(NoG * BaseKernels) |->
        LET g == ((c - 1) \div BaseKernels) + 1
            o == ((c - 1) % BaseKernels) + 1
        IN  <<bank[g][1] * x[1][o], bank[g][2] * x[2][o]>>]

\* IGaborCmplx.forward(x): regenerate when the flag asks for it, then
\* modulate x with the cached bank.  The debug message of the first line
\* evaluates gabor_cmplx for its size only and stores nothing, so it is not
\* part of the state change.
IGaborCmplx_forward(h, ref, flag, params, x) ==
    LET s == IF flag THEN generate_gabor_filters(h, ref, params)
                     ELSE [heap |-> h, gabor_filters |-> ref, calc_filters |-> flag]
        cell == s.heap[s.gabor_filters]
    IN  [state       |-> s,
         regenerated |-> flag,
         readValid   |-> ~s.calc_filters,
         readInit    |-> cell.init,
         bank        |-> cell.bank,
         out         |-> Modulate(cell.bank, x)]

\* ------------------------------------------------------------- the actions
NoFwd == [regenerated |-> FALSE, readValid |-> FALSE, readInit |-> FALSE,
          bank |-> <<>>, out |-> <<>>, prev |-> "none"]
NoBwd == [used |-> <<>>, atForward |-> <<>>]

NoConv == [phase |-> "unused"]
NoPooling == [phase |-> "unused"]
NoCall == [phase |-> "unused"]
NoNet == [phase |-> "unused"]

\* Construction of the layer of the cache model: kernels and Gabor parameters
\* are initialised, the cache is Stale.
InitCache(junks) ==
    \E junk \in junks :
        LET s == IGaborCmplx_init(junk) IN
        /\ gabor_params = 0
        /\ ReConv = 0
        /\ ImConv = 0
        /\ gabor_filters = s.gabor_filters
        /\ calc_filters = s.calc_filters
        /\ heap = s.heap
        /\ graphs = {}
        /\ has_grad = FALSE
        /\ lastOp = "init"
        /\ sinceFwd = "none"
        /\ fwd = NoFwd
        /\ bwd = NoBwd

Init ==
    /\ InitCache(Garbage)
    /\ conv = NoConv
    /\ pooling = NoPooling
    /\ call = NoCall
    /\ net = NoNet

\* IGConvCmplx.forward: enhanced_weight = self.gabor(cmplx(ReConv.weight,
\* ImConv.weight)); the convolution that follows keeps an autograd graph that
\* saves the bank tensor it multiplied with (keep = FALSE: under no_grad).
Forward(keep) ==
    LET r == IGaborCmplx_forward(heap, gabor_filters, calc_filters, gabor_params,
                                 cmplx(KernelOf(ReConv), KernelOf(ImConv)))
        gs == IF keep
                THEN graphs \cup {[saved |-> r.state.gabor_filters, bank |-> r.bank]}
                ELSE graphs
    IN  /\ Cardinality(gs) <= MaxGraphs
        /\ gabor_filters' = r.state.gabor_filters
        /\ calc_filters' = r.state.calc_filters
        /\ graphs' = gs
        /\ heap' = Collect(r.state.heap, r.state.gabor_filters, gs)
        /\ fwd' = [regenerated |-> r.regenerated, readValid |-> r.readValid,
                   readInit |-> r.readInit, bank |-> r.bank, out |-> r.out,
                   prev |-> sinceFwd]
        /\ lastOp' = "forward"
        /\ sinceFwd' = "nothing"
        /\ bwd' = NoBwd
        /\ UNCHANGED <<gabor_params, ReConv, ImConv, has_grad, conv, pooling, call, net>>

\* A backward pass through the graph g of an earlier forward: it reads the
\* bank tensor the graph saved, gives the parameters their gradients and
\* fires the hook set_filter_calc (retain = TRUE: retain_graph).
Backward(g, retain) ==
    LET gs == IF retain THEN graphs ELSE graphs \ {g} IN
    /\ g \in graphs
    /\ bwd' = [used |-> heap[g.saved].bank, atForward |-> g.bank]
    /\ calc_filters' = set_filter_calc(calc_filters)
    /\ graphs' = gs
    /\ heap' = Collect(heap, gabor_filters, gs)
    /\ has_grad' = TRUE
    /\ lastOp' = "backward"
    /\ sinceFwd' = IF sinceFwd = "none" THEN "none" ELSE "grad"
    /\ fwd' = NoFwd
    /\ UNCHANGED <<gabor_params, ReConv, ImConv, gabor_filters, conv, pooling, call, net>>

\* An optimizer step: the parameters that hold a gradient are updated.
Step(p, re, im) ==
    /\ has_grad
    /\ gabor_params' = p
    /\ ReConv' = re
    /\ ImConv' = im
    /\ lastOp' = "step"
    /\ sinceFwd' = IF sinceFwd = "nothing" THEN "step" ELSE sinceFwd
    /\ fwd' = NoFwd
    /\ bwd' = NoBwd
    /\ UNCHANGED <<gabor_filters, calc_filters, heap, graphs, has_grad, conv, pooling, call, net>>

Next ==
    \/ \E keep \in BOOLEAN : Forward(keep)
    \/ \E g \in graphs, retain \in BOOLEAN : Backward(g, retain)
    \/ \E p \in ParamVals, re \in WeightVals, im \in WeightVals : Step(p, re, im)

Spec == Init /\ [][Next]_vars

\* ------------------------------------------------------- filter-cache claims
\* The complex product of two complex numbers <<re, im>>.
ComplexProduct(w, g) == <<w[1] * g[1] - w[2] * g[2], w[1] * g[2] + w[2] * g[1]>>

\* C1: every forward multiplies the weights by a bank generated from the
\* parameter values current at that forward (no bank generated before a
\* parameter change is used by a forward after it).
C1_ForwardUsesCurrentBank ==
    lastOp = "forward" => fwd.bank = gabor_cmplx(gabor_params)

\* C2: a forward that follows a forward with no gradient computation between
\* them does not regenerate the bank and keeps the cached tensor; when it
\* follows the forward directly, its EnhancedWeight is the one of that forward.
C2_ConsecutiveForwardsReuse ==
    [][((lastOp' = "forward" /\ sinceFwd \in {"nothing", "step"}) =>
          (/\ ~fwd'.regenerated
           /\ gabor_filters' = gabor_filters
           /\ fwd'.bank = heap[gabor_filters].bank))
       /\ ((lastOp' = "forward" /\ sinceFwd = "nothing") =>
              fwd'.out = fwd.out)]_vars

\* C2 witness: a forward ran directly after a forward and reused the bank.
C2_Witness ==
    lastOp = "forward" /\ fwd.prev = "nothing" /\ ~fwd.regenerated

\* C3: the first forward after a gradient computation regenerates the bank
\* from the Gabor parameters as they are at that forward and stores it as the
\* cached bank.
C3_ForwardAfterGradRegenerates ==
    (lastOp = "forward" /\ fwd.prev = "grad") =>
        /\ fwd.regenerated
        /\ fwd.bank = gabor_cmplx(gabor_params)
        /\ heap[gabor_filters] = [bank |-> gabor_cmplx(gabor_params), init |-> TRUE]
        /\ ~calc_filters

\* C3 witness: a forward after a backward and a parameter change regenerated.
C3_Witness ==
    /\ lastOp = "forward" /\ fwd.prev = "grad" /\ fwd.regenerated
    /\ gabor_params # 0

\* C4: the flag is Stale at construction, becomes Valid only in a forward
\* that has generated and stored the bank, and becomes Stale only by the
\* gradient hook; the modulation reads the cached bank only while the flag is
\* Valid and never reads the uninitialised buffer.
C4_CacheLifecycle ==
    /\ calc_filters = TRUE
    /\ [][((calc_filters /\ ~calc_filters') =>
              (/\ lastOp' = "forward"
               /\ fwd'.regenerated
               /\ heap'[gabor_filters'] =
                      [bank |-> gabor_cmplx(gabor_params), init |-> TRUE]))
          /\ ((~calc_filters /\ calc_filters') => lastOp' = "backward")]_vars
    /\ [](lastOp = "forward" => (fwd.readValid /\ fwd.readInit))

\* C4 witness: the first forward after construction has read a generated bank.
C4_Witness ==
    lastOp = "forward" /\ fwd.prev = "none" /\ fwd.readValid /\ fwd.readInit

\* C5: the bank a backward pass reads is the bank its forward pass used,
\* whatever happened to the cache in between.
C5_BackwardReadsForwardBank ==
    lastOp = "backward" => bwd.used = bwd.atForward

\* C5 witness: a backward ran through a graph whose forward used a bank other
\* than the one cached now (the cache was regenerated in between).
C5_Witness ==
    /\ lastOp = "backward"
    /\ bwd.atForward # heap[gabor_filters].bank
    /\ heap[gabor_filters].init

\* C9: the EnhancedWeight of a forward is the complex product of the
\* convolution weight and the filter bank, for every orientation g and base
\* kernel o, in NoG * BaseKernels output channels.
C9_EnhancedWeightIsComplexProduct ==
    lastOp = "forward" =>
        /\ DOMAIN fwd.out = 1..(NoG * BaseKernels)
        /\ \A g \in Orientations, o \in Kernels :
               fwd.out[(g - 1) * BaseKernels + o] =
                   ComplexProduct(<<KernelOf(ReConv)[o], KernelOf(ImConv)[o]>>,
                                  fwd.bank[g])

\* ---- the invalidation hook on its own
\* layer.gabor.set_filter_calc(*args): the hook called as autograd calls it,
\* outside of the bookkeeping of a backward pass.  bwd.fires counts the calls
\* in a row (1, or 2 for two and more).
SetFilterCalc ==
    /\ calc_filters' = set_filter_calc(calc_filters)
    /\ lastOp' = "set_filter_calc"
    /\ bwd' = NoBwd @@ [fires |-> IF lastOp = "set_filter_calc" THEN 2 ELSE 1]
    /\ fwd' = NoFwd
    /\ sinceFwd' = IF sinceFwd = "none" THEN "none" ELSE "grad"
    /\ UNCHANGED <<gabor_params, ReConv, ImConv, gabor_filters, heap, graphs,
                   has_grad, conv, pooling, call, net>>

NextHook ==
    \/ \E keep \in BOOLEAN : Forward(keep)
    \/ \E g \in graphs, retain \in BOOLEAN : Backward(g, retain)
    \/ \E p \in ParamVals, re \in WeightVals, im \in WeightVals : Step(p, re, im)
    \/ SetFilterCalc

SpecHook == Init /\ [][NextHook]_vars

\* C26: the hook set_filter_calc, called on its own or by a backward pass,
\* leaves the flag Stale whatever it was, and leaves the reference to the
\* cached bank, the cached bank, the Gabor parameters and the kernels as they
\* were; called directly after itself it changes none of them, the flag
\* included.
C26_HookOnlySetsStale ==
    [][(lastOp' \in {"set_filter_calc", "backward"} =>
           /\ calc_filters' = TRUE
           /\ gabor_filters' = gabor_filters
           /\ heap'[gabor_filters'] = heap[gabor_filters]
           /\ gabor_params' = gabor_params
           /\ ReConv' = ReConv
           /\ ImConv' = ImConv)
       /\ ((lastOp' = "set_filter_calc" /\ lastOp = "set_filter_calc") =>
              /\ calc_filters' = calc_filters
              /\ heap' = heap)]_vars

\* C26 witness: the hook was called twice in a row on a layer whose bank had
\* been generated from changed parameters; the flag is Stale and the bank is
\* still the generated one.
C26_Witness ==
    /\ lastOp = "set_filter_calc"
    /\ bwd.fires = 2
    /\ calc_filters
    /\ gabor_params # 0
    /\ heap[gabor_filters] = [bank |-> gabor_cmplx(gabor_params), init |-> TRUE]

\* ------------------------------------------------------------ tensor shapes
\* A shape is the sequence of a tensor's sizes; dimensions are counted from 0
\* as in the code.
RECURSIVE Numel(_)
Numel(shape) == IF shape = <<>> THEN 1 ELSE Head(shape) * Numel(Tail(shape))

\* x.unsqueeze(d)
Unsqueeze(shape, d) ==
    [i \in 1..(Len(shape) + 1) |->
        IF i <= d THEN shape[i] ELSE IF i = d + 1 THEN 1 ELSE shape[i - 1]]

\* The shape of a reduction over dimension d, or of squeeze(d) of a size-1 axis.
DropDim(shape, d) ==
    [i \in 1..(Len(shape) - 1) |-> IF i <= d THEN shape[i] ELSE shape[i + 1]]

\* The shape of a * b for two tensors of the same rank (broadcasting).
Broadcast(a, b) == [i \in 1..Len(a) |-> IF a[i] = 1 THEN b[i] ELSE a[i]]

\* F.conv2d(x, w, stride, padding) on x = [B, C, H, W] and w = [N, I, kh, kw]:
\* the channels must agree and the padded input must hold the kernel.
conv2d(x, w, kwargs) ==
    LET h == x[3] + 2 * kwargs.padding - w[3]
        v == x[4] + 2 * kwargs.padding - w[4]
    IN  IF x[2] # w[2] \/ h < 0 \/ v < 0
          THEN [error |-> "RuntimeError", shape |-> <<>>]
          ELSE [error |-> "none",
                shape |-> <<x[1], w[1], (h \div kwargs.stride) + 1,
                            (v \div kwargs.stride) + 1>>]

\* conv_cmplx(x, w, **kwargs) without transpose: four real convolutions of the
\* components x[0], x[1] with w[0], w[1], stacked by cmplx.
conv_cmplx(x, w, kwargs) ==
    LET c == conv2d(Tail(x), Tail(w), kwargs) IN
    IF c.error # "none" THEN c ELSE [error |-> "none", shape |-> <<2>> \o c.shape]

\* ------------------------------------------------------------ IGConvCmplx
\* Bounds of the constructor arguments and of the input of forward.
MaxIn == 2
MaxOut == 12
MaxNoGabor == 4
MaxBatch == 1
MaxSize == 5
KernelSizes == {1, 3}
ConvKwargs == {[stride |-> 1, padding |-> 0], [stride |-> 2, padding |-> 1]}
PoolingModes == {"None", "max", "avg", "mag"}
WeightInits == {"None", "he", "glorot"}

\* The values a caller may pass as gabor_pooling: the enumerated ones and a
\* string outside the enumeration.
PoolingArgs == PoolingModes \cup {"sum"}

CtorArgs ==
    [input_features : 1..MaxIn, output_features : 1..MaxOut,
     kernel_size : KernelSizes, no_g : 1..MaxNoGabor,
     gabor_pooling : PoolingArgs, weight_init : WeightInits,
     conv_kwargs : ConvKwargs]

\* igcn/utils.py _pair: an int kernel size stands for a square kernel.
pair(k) == <<k, k>>

\* init._calculate_fan_in_and_fan_out(t) of a tensor of shape t: dimension 1
\* counts the input maps, dimension 0 the output maps, the rest is the
\* receptive field.
calculate_fan_in_and_fan_out(t) ==
    LET field == Numel(SubSeq(t, 3, Len(t)))
    IN  IF Len(t) < 2 THEN [error |-> "ValueError", fan_in |-> 0, fan_out |-> 0]
        ELSE [error |-> "none", fan_in |-> t[2] * field, fan_out |-> t[1] * field]

\* init_weights(w, mode, polar): the fans are those of w[0]; sigma is
\* 1 / fan_in for 'he' and 1 / (fan_in + fan_out) for 'glorot', and is assigned
\* only for these two modes: any other mode reaches the use of sigma with no
\* value bound to it.  sigma is held as 1 / sigma^2; w.data becomes a
\* tensor of shape [2, *w[0].size()].
init_weights(w, mode, polar) ==
    LET fan == calculate_fan_in_and_fan_out(Tail(w))
    IN  IF fan.error # "none"
          THEN [error |-> fan.error]
        ELSE IF mode \notin {"he", "glorot"}
          THEN [error |-> "UnboundLocalError"]
        ELSE [error |-> "none", fan_in |-> fan.fan_in, fan_out |-> fan.fan_out,
              inv_sigma_sq |-> IF mode = "he" THEN fan.fan_in * fan.fan_in
                               ELSE (fan.fan_in + fan.fan_out) * (fan.fan_in + fan.fan_out),
              data |-> <<2>> \o Tail(w)]

\* A variant of IGConvCmplx_init without the divisibility check.
IGConvCmplx_init_unchecked(a) ==
    LET out == IF a.gabor_pooling = "None"
                 THEN a.output_features \div a.no_g ELSE a.output_features
        ks == pair(a.kernel_size)
        w == <<out, a.input_features, ks[1], ks[2]>>
    IN  [error |-> "none", created |-> <<"ReConv", "ImConv", "gabor">>,
         weight |-> w, no_g |-> a.no_g, kernel_size |-> ks,
         gabor_pooling |-> a.gabor_pooling, conv_kwargs |-> a.conv_kwargs]

\* A variant of IGConvCmplx_init without output_features //= no_g.
IGConvCmplx_init_undivided(a) ==
    IF a.gabor_pooling = "None" /\ a.output_features % a.no_g # 0
      THEN [error |-> "ValueError", created |-> <<>>]
      ELSE [error |-> "none", created |-> <<"ReConv", "ImConv", "gabor">>,
            weight |-> <<a.output_features, a.input_features,
                         pair(a.kernel_size)[1], pair(a.kernel_size)[2]>>,
            no_g |-> a.no_g, kernel_size |-> pair(a.kernel_size),
            gabor_pooling |-> a.gabor_pooling, conv_kwargs |-> a.conv_kwargs]

\* What initialised the kernels of a layer: Conv2d's default initialisation
\* when weight_init is None, else the call
\* init_weights(self.ReConv.weight, self.ImConv.weight, weight_init), which
\* binds ImConv.weight to the parameter mode and weight_init to polar.
WeightInitCall(weight_init) ==
    IF weight_init = "None"
      THEN [by |-> "Conv2d"]
      ELSE [by |-> "init_weights", w |-> "ReConv.weight",
            mode |-> "ImConv.weight", polar |-> weight_init]

\* IGConvCmplx.__init__: the divisibility check comes first and raises before
\* any sub-module exists; then ReConv and ImConv are made with
\* output_features // no_g kernels (output_features with pooling), the weights
\* are initialised when weight_init is given (the call passes ImConv.weight
\* where init_weights expects the mode) and the Gabor module is made.
IGConvCmplx_init(a) ==
    IF a.gabor_pooling = "None" /\ a.output_features % a.no_g # 0
      THEN [error |-> "ValueError", created |-> <<>>]
      ELSE
        LET out == IF a.gabor_pooling = "None"
                     THEN a.output_features \div a.no_g ELSE a.output_features
            ks == pair(a.kernel_size)
            w == <<out, a.input_features, ks[1], ks[2]>>
            c == WeightInitCall(a.weight_init)
            e == IF a.weight_init # "None"
                   THEN init_weights(w, c.mode, c.polar).error
                   ELSE "none"
        IN  IF e # "none"
              THEN [error |-> e, created |-> <<"ReConv", "ImConv">>]
              ELSE [error |-> "none", created |-> <<"ReConv", "ImConv", "gabor">>,
                    weight |-> w, no_g |-> a.no_g, kernel_size |-> ks,
                    gabor_pooling |-> a.gabor_pooling,
                    conv_kwargs |-> a.conv_kwargs, init |-> c]

\* ConvCmplx.__init__: ReConv and ImConv are made with output_features
\* kernels and the weights are initialised by the same call.
ConvCmplx_init(a) ==
    LET ks == pair(a.kernel_size)
        w == <<a.output_features, a.input_features, ks[1], ks[2]>>
        c == WeightInitCall(a.weight_init)
        e == IF a.weight_init # "None"
               THEN init_weights(w, c.mode, c.polar).error
               ELSE "none"
    IN  IF e # "none"
          THEN [error |-> e, created |-> <<"ReConv", "ImConv">>]
          ELSE [error |-> "none", created |-> <<"ReConv", "ImConv">>,
                weight |-> w, conv_kwargs |-> a.conv_kwargs, init |-> c]

\* The shape of the filter bank: [2, no_g, 1, 1, kh, kw].
BankShape(no_g, ks) == <<2, no_g, 1, 1, ks[1], ks[2]>>

\* IGaborCmplx.forward on x = [2, O, I, kh, kw]: the bank times x.unsqueeze(1)
\* is [2, no_g, O, I, kh, kw], viewed as [2, no_g * O, I, kh, kw].
IGaborCmplx_forward_shape(no_g, ks, x) ==
    LET out == Broadcast(BankShape(no_g, ks), Unsqueeze(x, 1))
        rest == SubSeq(out, 4, Len(out))
    IN  <<2, Numel(out) \div (2 * Numel(rest))>> \o rest

\* torch.max(x, dim): a pair (values, indices).
torch_max(x, dim) ==
    [kind |-> "tuple", first |-> DropDim(x, dim), second |-> DropDim(x, dim)]

\* torch.mean(x, dim): one tensor.
torch_mean(x, dim) == [kind |-> "tensor", shape |-> DropDim(x, dim)]

\* max_mag_gabor_pool(x) on x = [2, B, O, G, H, W]: the magnitude is
\* [B, O, G, H, W], its arg-max over dim 2 (kept) is [B, O, 1, H, W], repeated
\* for both components; x is gathered along dim 3 and squeezed.
max_mag_gabor_pool_shape(x) ==
    LET r == Tail(x)
        idxs == <<2>> \o [i \in 1..Len(r) |-> IF i = 3 THEN 1 ELSE r[i]]
    IN  [kind |-> "tuple", first |-> DropDim(idxs, 3), second |-> idxs]

\* pool_out, max_idxs = result: a pair is taken apart; a tensor is iterated
\* over its leading axis, which must have two entries, and the first name gets
\* its first slice.
Unpack(r) ==
    IF r.kind = "tuple"
      THEN [error |-> "none", shape |-> r.first, holds |-> "complex"]
      ELSE IF r.shape[1] = 2
        THEN [error |-> "none", shape |-> Tail(r.shape), holds |-> "real"]
        ELSE [error |-> "ValueError", shape |-> <<>>, holds |-> "none"]

\* The channel c of the enhanced weight [2, no_g * O, I, kh, kw] that
\* IGaborCmplx.forward returns: the product [2, no_g, O, I, kh, kw] is viewed
\* with the orientation as the major and the base kernel as the minor index,
\* so c holds <<orientation, base kernel>>.  The convolution keeps the order.
EnhancedChannel(O, c) == <<((c - 1) \div O) + 1, ((c - 1) % O) + 1>>

\* out.view(2, B, C // no_g, no_g, H, W): the channels the view puts at the
\* index k of dimension 2, which the pooling over dimension 3 reduces to one.
PoolGroup(no_g, k) == {(k - 1) * no_g + j : j \in 1..no_g}

\* IGConvCmplx.forward(x): the shape and the content of what it returns, and
\* for every pooled output channel the <<orientation, base kernel>> pairs of
\* the channels reduced into it.  A gabor_pooling that the constructor did not
\* replace by a function is still the string it was given, and calling it
\* raises.
IGConvCmplx_forward(L, x) ==
    LET enhanced == IGaborCmplx_forward_shape(L.no_g, L.kernel_size, <<2>> \o L.weight)
        out == conv_cmplx(x, enhanced, L.conv_kwargs)
    IN  IF out.error # "none"
          THEN [error |-> out.error, shape |-> <<>>, holds |-> "none", reduced |-> <<>>]
        ELSE IF L.gabor_pooling = "None"
          THEN [error |-> "none", shape |-> out.shape, holds |-> "complex",
                reduced |-> <<>>]
        ELSE IF L.gabor_pooling \notin {"max", "avg", "mag"}
          THEN [error |-> "TypeError", shape |-> <<>>, holds |-> "none", reduced |-> <<>>]
        ELSE
          LET pool_out == <<2, out.shape[2], enhanced[2] \div L.no_g, L.no_g,
                            out.shape[4], out.shape[5]>>
              u == Unpack(CASE L.gabor_pooling = "max" -> torch_max(pool_out, 3)
                            [] L.gabor_pooling = "avg" -> torch_mean(pool_out, 3)
                            [] L.gabor_pooling = "mag" -> max_mag_gabor_pool_shape(pool_out))
          IN  [error |-> u.error, shape |-> u.shape, holds |-> u.holds,
               reduced |-> [k \in 1..pool_out[3] |->
                              {EnhancedChannel(L.weight[1], c) :
                                  c \in PoolGroup(L.no_g, k)}]]

\* The inputs of forward: complex tensors [2, B, C, H, W].
InputShapes(a) ==
    {<<2, b, c, h, w>> : b \in 1..MaxBatch,
                         c \in {a.input_features, a.input_features + 1},
                         h \in 1..MaxSize, w \in {1, MaxSize}}

InitLayer ==
    /\ InitCache({[g \in Orientations |-> <<0, 0>>]})
    /\ pooling = NoPooling
    /\ call = NoCall
    /\ net = NoNet
    /\ \E a \in CtorArgs : conv = [phase |-> "args", args |-> a]

\* layer = IGConvCmplx(**args)
Construct ==
    /\ conv.phase = "args"
    /\ LET L == IGConvCmplx_init(conv.args) IN
       conv' = [phase |-> IF L.error = "none" THEN "built" ELSE "failed",
                args |-> conv.args, layer |-> L]
    /\ UNCHANGED <<cacheVars, pooling, call, net>>

\* layer = ConvCmplx(input_features, output_features, kernel_size,
\*                   weight_init=weight_init, **conv_kwargs)
ConstructConv ==
    /\ conv.phase = "args"
    /\ LET L == ConvCmplx_init(conv.args) IN
       conv' = [phase |-> IF L.error = "none" THEN "conv_built" ELSE "conv_failed",
                args |-> conv.args, layer |-> L]
    /\ UNCHANGED <<cacheVars, pooling, call, net>>

\* out = layer(x)
Call(x) ==
    /\ conv.phase = "built"
    /\ conv' = [phase |-> "called", args |-> conv.args, layer |-> conv.layer,
                x |-> x, out |-> IGConvCmplx_forward(conv.layer, x)]
    /\ UNCHANGED <<cacheVars, pooling, call, net>>

NextLayer ==
    \/ Construct
    \/ ConstructConv
    \/ \E x \in InputShapes(conv.args) : Call(x)

SpecLayer == InitLayer /\ [][NextLayer]_vars

\* C6: without orientation pooling, output_features not divisible by no_g
\* fails in the constructor before any sub-module is created, and only then
\* does the divisibility check fail; a divisible output_features (with the
\* default weight_init) succeeds with output_features / no_g base kernels.
C6_DivisibilityCheckedAtConstruction ==
    conv.phase \in {"built", "failed"} =>
        LET a == conv.args
            L == conv.layer
            bad == a.gabor_pooling = "None" /\ a.output_features % a.no_g # 0
        IN  /\ bad <=> L.error = "ValueError"
            /\ bad => (conv.phase = "failed" /\ L.created = <<>>)
            /\ (a.gabor_pooling = "None" /\ ~bad /\ a.weight_init = "None") =>
                  /\ conv.phase = "built"
                  /\ L.weight[1] * a.no_g = a.output_features

\* C6 witness: output_features = 10, no_g = 4 without pooling was rejected.
C6_Witness ==
    /\ conv.phase = "failed"
    /\ conv.args.output_features = 10 /\ conv.args.no_g = 4
    /\ conv.args.gabor_pooling = "None"
    /\ conv.layer.error = "ValueError"

\* C7: without orientation pooling, stride 1 and no padding, forward maps
\* [2, B, in, H, W] to [2, B, output_features, H - kh + 1, W - kw + 1].
C7_OutputShapeWithoutPooling ==
    (/\ conv.phase = "called"
     /\ conv.args.gabor_pooling = "None"
     /\ conv.args.conv_kwargs = [stride |-> 1, padding |-> 0]
     /\ conv.x[3] = conv.args.input_features
     /\ conv.x[4] >= conv.args.kernel_size
     /\ conv.x[5] >= conv.args.kernel_size) =>
        /\ conv.out.error = "none"
        /\ conv.out.shape = <<2, conv.x[2], conv.args.output_features,
                              conv.x[4] - conv.args.kernel_size + 1,
                              conv.x[5] - conv.args.kernel_size + 1>>

\* C7 witness: in = 1, out = 8, kernel 3, no_g = 4 maps [2,1,1,5,5] to [2,1,8,3,3].
C7_Witness ==
    /\ conv.phase = "called"
    /\ conv.args.gabor_pooling = "None"
    /\ conv.args.input_features = 1 /\ conv.args.output_features = 8
    /\ conv.args.kernel_size = 3 /\ conv.args.no_g = 4
    /\ conv.x = <<2, 1, 1, 5, 5>>
    /\ conv.out.shape = <<2, 1, 8, 3, 3>>

\* C8: for every pooling mode, forward on a rank-5 complex input returns a
\* rank-5 complex tensor whose leading axis of size 2 holds the real and the
\* imaginary component.
C8_ForwardReturnsRank5Complex ==
    (conv.phase = "called" /\ conv.out.error = "none") =>
        /\ Len(conv.out.shape) = 5
        /\ conv.out.shape[1] = 2
        /\ conv.out.holds = "complex"

\* C20: with an orientation pooling mode, every output channel of
\* IGConvCmplx.forward is the reduction over the no_g channels that one base
\* kernel gives with the no_g Gabor filters: the channel layout of
\* IGaborCmplx.forward and the view of IGConvCmplx.forward agree on which
\* index is the orientation.
C20_PoolingCollapsesOrientations ==
    (conv.phase = "called" /\ conv.args.gabor_pooling # "None"
        /\ conv.out.error = "none") =>
        \A k \in DOMAIN conv.out.reduced :
            \E o \in 1..conv.layer.weight[1] :
                conv.out.reduced[k] = {<<g, o>> : g \in 1..conv.args.no_g}

\* C28: IGConvCmplx given a gabor_pooling outside None, 'max', 'avg', 'mag'
\* fails in the constructor, so that no forward runs on a layer whose pooling
\* selector is not one of the enumerated ones.
C28_UnknownPoolingRejected ==
    /\ (conv.phase \in {"built", "failed"}
           /\ conv.args.gabor_pooling \notin PoolingModes) => conv.phase = "failed"
    /\ conv.phase = "called" => conv.args.gabor_pooling \in PoolingModes

\* C24: constructing IGConvCmplx (with a divisible output_features) or
\* ConvCmplx with weight_init 'he' or 'glorot' completes without error and
\* initialises the kernels by init_weights with that mode and cartesian
\* storage; with weight_init None the kernels keep Conv2d's initialisation.
C24_WeightInitAtConstruction ==
    (\/ conv.phase \in {"conv_built", "conv_failed"}
     \/ /\ conv.phase \in {"built", "failed"}
        /\ ~(conv.args.gabor_pooling = "None"
               /\ conv.args.output_features % conv.args.no_g # 0)) =>
        /\ conv.layer.error = "none"
        /\ IF conv.args.weight_init = "None"
             THEN conv.layer.init.by = "Conv2d"
             ELSE /\ conv.layer.init.by = "init_weights"
                  /\ conv.layer.init.mode = conv.args.weight_init
                  /\ conv.layer.init.polar = "False"

\* --------------------------------------------------------- spatial pooling
\* Tensor entries are held as multiples of 1e-5, their squares as multiples of
\* 1e-10.  The components of the pooled tensor are the multiples of ValStep
\* from -MaxVal * ValStep to MaxVal * ValStep (real) and 0 or MaxVal * ValStep
\* (imaginary): some entries lie below sqrt(eps) and some above.
MaxVal == 1
ValStep == 8
\* The default eps = 1e-8 of magnitude, in units of 1e-10.
Eps == 100
\* The plane [H, W] one batch item and channel of the input holds.
PlaneShape == <<2, 2>>
PoolKernels == {<<1, 2>>, <<2, 1>>}
PoolOperators == {"max", "mag"}

PlaneRows == 1..PlaneShape[1]
PlaneCols == 1..PlaneShape[2]
\* The complex tensors [2, 1, 1, H, W]: x[1] the real and x[2] the imaginary
\* plane, each [row][column].
PoolInputs ==
    {<<re, im>> :
        re \in [PlaneRows -> [PlaneCols -> {k * ValStep : k \in (-MaxVal)..MaxVal}]],
        im \in [PlaneRows -> [PlaneCols -> {0, MaxVal * ValStep}]]}

\* magnitude(x) of one element, sqrt(clamp(re^2 + im^2, min=eps)), held as
\* its square (the square root keeps the order).
magnitude(re, im) ==
    LET v == re * re + im * im IN IF v < Eps THEN Eps ELSE v

\* The output windows of F.max_pool2d(r, kernel_size): the stride is the
\* kernel size, windows that do not fit are dropped; numbered row by row.
PoolOut(kernel) == <<PlaneShape[1] \div kernel[1], PlaneShape[2] \div kernel[2]>>
Windows(kernel) == 1..(PoolOut(kernel)[1] * PoolOut(kernel)[2])

\* The flat indices (row * W + column, from 0) of the positions of window w.
Window(kernel, w) ==
    LET i == (w - 1) \div PoolOut(kernel)[2]
        j == (w - 1) % PoolOut(kernel)[2]
    IN  {(i * kernel[1] + a) * PlaneShape[2] + (j * kernel[2] + b) :
            a \in 0..(kernel[1] - 1), b \in 0..(kernel[2] - 1)}

\* plane.flatten()[idx]
At(plane, idx) == plane[(idx \div PlaneShape[2]) + 1][(idx % PlaneShape[2]) + 1]

\* The maximum of a non-empty finite set of integers.
MaxOf(S) == CHOOSE m \in S : \A n \in S : n <= m

\* F.max_pool2d(plane, kernel_size): the maximum of every window.
max_pool2d(plane, kernel) ==
    [w \in Windows(kernel) |-> MaxOf({At(plane, p) : p \in Window(kernel, w)})]

\* The index tensors F.max_pool2d(r, kernel_size, return_indices=True) may
\* return for r = magnitude(x): for every window the flat index of a position
\* that holds the window's maximum.
max_pool2d_indices(x, kernel) ==
    {idxs \in [Windows(kernel) -> 0..(PlaneShape[1] * PlaneShape[2] - 1)] :
        \A w \in Windows(kernel) :
            /\ idxs[w] \in Window(kernel, w)
            /\ \A q \in Window(kernel, w) :
                  magnitude(At(x[1], q), At(x[2], q))
                      <= magnitude(At(x[1], idxs[w]), At(x[2], idxs[w]))}

\* A variant of max_mag_pool that pools the two components on their own.
max_mag_pool_plain(x, kernel, idxs) ==
    cmplx(max_pool2d(x[1], kernel), max_pool2d(x[2], kernel))

\* max_mag_pool(x, kernel_size): both components are gathered from the
\* flattened planes at the indices idxs of the magnitude's maxima.
max_mag_pool(x, kernel, idxs) ==
    cmplx([w \in Windows(kernel) |-> At(x[1], idxs[w])],
          [w \in Windows(kernel) |-> At(x[2], idxs[w])])

\* pool_cmplx(x, kernel_size, operator) for the max-type operators (a rank-5
\* input is pooled as it is): 'mag' is magnitude-consistent, every other
\* operator pools the real and the imaginary plane on their own.
pool_cmplx(x, kernel, operator, idxs) ==
    IF operator = "mag"
      THEN max_mag_pool(x, kernel, idxs)
      ELSE cmplx(max_pool2d(x[1], kernel), max_pool2d(x[2], kernel))

InitPool ==
    /\ InitCache({[g \in Orientations |-> <<0, 0>>]})
    /\ conv = NoConv
    /\ call = NoCall
    /\ net = NoNet
    /\ \E x \in PoolInputs, k \in PoolKernels, op \in PoolOperators :
          pooling = [phase |-> "in", x |-> x, kernel |-> k, operator |-> op]

\* out = pool_cmplx(x, kernel_size, operator=operator)
Pool(idxs) ==
    /\ pooling.phase = "in"
    /\ pooling' = [phase |-> "out", x |-> pooling.x, kernel |-> pooling.kernel,
                   operator |-> pooling.operator,
                   out |-> pool_cmplx(pooling.x, pooling.kernel,
                                      pooling.operator, idxs)]
    /\ UNCHANGED <<cacheVars, conv, call, net>>

\* MaxPoolCmplx.__init__(kernel_size, maxmag): the operator it hands to
\* pool_cmplx is 'maxmag' when maxmag is set and None otherwise.
MaxPoolCmplx_init(kernel_size, maxmag) ==
    [kernel_size |-> kernel_size,
     operator |-> IF maxmag THEN "maxmag" ELSE "None"]

\* MaxPoolCmplx.forward(x): pool_cmplx(x, self.kernel_size,
\* operator=self.operator).
MaxPoolCmplx_forward(module, x, idxs) ==
    pool_cmplx(x, module.kernel_size, module.operator, idxs)

\* out = MaxPoolCmplx(kernel_size, maxmag=maxmag)(x)
MaxPool(maxmag, idxs) ==
    /\ pooling.phase = "in"
    /\ LET m == MaxPoolCmplx_init(pooling.kernel, maxmag) IN
       pooling' = [phase |-> "module", x |-> pooling.x, kernel |-> pooling.kernel,
                   maxmag |-> maxmag, operator |-> m.operator,
                   out |-> MaxPoolCmplx_forward(m, pooling.x, idxs)]
    /\ UNCHANGED <<cacheVars, conv, call, net>>

NextPool ==
    \/ \E idxs \in max_pool2d_indices(pooling.x, pooling.kernel) : Pool(idxs)
    \/ \E maxmag \in BOOLEAN, idxs \in max_pool2d_indices(pooling.x, pooling.kernel) :
          MaxPool(maxmag, idxs)

SpecPool == InitPool /\ [][NextPool]_vars

\* C10: magnitude-consistent spatial pooling takes, in every window, the real
\* and the imaginary output from one input position, and that position is one
\* where the magnitude (as magnitude computes it) is maximal in the window.
C10_MagPoolTakesOnePosition ==
    (pooling.phase = "out" /\ pooling.operator = "mag") =>
        \A w \in Windows(pooling.kernel) :
            \E p \in Window(pooling.kernel, w) :
                /\ pooling.out[1][w] = At(pooling.x[1], p)
                /\ pooling.out[2][w] = At(pooling.x[2], p)
                /\ \A q \in Window(pooling.kernel, w) :
                      magnitude(At(pooling.x[1], q), At(pooling.x[2], q))
                          <= magnitude(At(pooling.x[1], p), At(pooling.x[2], p))

\* C10 witness: a magnitude-consistent pooling returned something else than
\* the maxima of the real and of the imaginary plane.
C10_Witness ==
    /\ pooling.phase = "out" /\ pooling.operator = "mag"
    /\ pooling.out # cmplx(max_pool2d(pooling.x[1], pooling.kernel),
                           max_pool2d(pooling.x[2], pooling.kernel))

\* C27: MaxPoolCmplx with maxmag=True takes, in every window, the real and
\* the imaginary output from one input position where the magnitude is
\* maximal in the window; with maxmag=False it returns the maxima of the real
\* and of the imaginary plane, each on its own.
C27_MaxPoolCmplxModes ==
    pooling.phase = "module" =>
        IF pooling.maxmag
          THEN \A w \in Windows(pooling.kernel) :
                  \E p \in Window(pooling.kernel, w) :
                      /\ pooling.out[1][w] = At(pooling.x[1], p)
                      /\ pooling.out[2][w] = At(pooling.x[2], p)
                      /\ \A q \in Window(pooling.kernel, w) :
                            magnitude(At(pooling.x[1], q), At(pooling.x[2], q))
                                <= magnitude(At(pooling.x[1], p), At(pooling.x[2], p))
          ELSE pooling.out = cmplx(max_pool2d(pooling.x[1], pooling.kernel),
                                   max_pool2d(pooling.x[2], pooling.kernel))

\* ------------------------------------------------ helpers of igcn/cmplx.py
\* The components of the complex numbers given to cmplx_mult are -MaxC..MaxC.
MaxC == 1
CmplxVals == {<<re, im>> : re \in (-MaxC)..MaxC, im \in (-MaxC)..MaxC}
\* cmplx_mult(*args) is called with two or three arguments.
MultArgs == (CmplxVals \X CmplxVals) \cup (CmplxVals \X CmplxVals \X CmplxVals)

\* The sum of the values of a function with a finite domain.
RECURSIVE SumFn(_)
SumFn(f) ==
    IF DOMAIN f = {} THEN 0
    ELSE LET d == CHOOSE d \in DOMAIN f : TRUE
         IN  f[d] + SumFn([e \in DOMAIN f \ {d} |-> f[e]])

\* A variant of mult that multiplies by the conjugate.
mult_conj(x, y) == <<x[1] * y[1] + x[2] * y[2], x[1] * y[2] - x[2] * y[1]>>

\* cmplx_mult.mult(x, y): torch.stack([x0*y0 - x1*y1, x0*y1 + x1*y0]),
\* entry by entry.
mult(x, y) == <<x[1] * y[1] - x[2] * y[2], x[1] * y[2] + x[2] * y[1]>>

\* prod = args[0]; for item in args[1:]: prod = mult(prod, item)
RECURSIVE MultLoop(_, _)
MultLoop(prod, items) ==
    IF items = <<>> THEN prod
    ELSE MultLoop(mult(prod, Head(items)), Tail(items))

\* cmplx_mult(*args)
cmplx_mult(args) ==
    IF Len(args) = 2 THEN mult(args[1], args[2])
    ELSE MultLoop(Head(args), Tail(args))

\* ---- conv_cmplx on values.  One row of the image is kept: a real tensor is
\* [channel][position], a real weight [dim 0][dim 1][tap].
\* The instance: weights [2, 2, 1, 1, 2] (two output channels, one input
\* channel, two taps) and inputs [2, 1, 1, 1, 1].
ConvShape == [out |-> 2, in |-> 1, taps |-> 2, len |-> 1]
\* Entries of the inputs and weights of conv_cmplx are 0..MaxConvVal.
MaxConvVal == 1
ConvVals == 0..MaxConvVal
ConvPaddings == {0, 1}
ConvInputs ==
    [1..ConvShape.in -> [1..ConvShape.len -> ConvVals]]
ConvWeights ==
    [1..ConvShape.out -> [1..ConvShape.in -> [1..ConvShape.taps -> ConvVals]]]

\* w.transpose(1, 2) of the complex weight: dims 0 and 1 of each component.
transpose(w) ==
    [b \in DOMAIN w[1] |-> [a \in DOMAIN w |-> w[a][b]]]

\* F.conv2d(x, w, padding=p) (stride 1): w is [out][in][tap].
conv2d_val(x, w, p) ==
    LET len == Len(x[1]) + 2 * p - Len(w[1][1]) + 1
        at(b, s) == IF s \in 1..Len(x[1]) THEN x[b][s] ELSE 0
    IN  IF Len(x) # Len(w[1]) \/ len < 1
          THEN [error |-> "RuntimeError", value |-> <<>>]
          ELSE [error |-> "none",
                value |-> [a \in DOMAIN w |-> [t \in 1..len |->
                    SumFn([bj \in (DOMAIN x) \X (DOMAIN w[1][1]) |->
                             at(bj[1], t + bj[2] - 1 - p) * w[a][bj[1]][bj[2]]])]]]

\* F.conv_transpose2d(x, w, padding=p) (stride 1): w is [in][out][tap].
conv_transpose2d_val(x, w, p) ==
    LET len == (Len(x[1]) - 1) - 2 * p + Len(w[1][1])
    IN  IF Len(x) # Len(w) \/ len < 1
          THEN [error |-> "RuntimeError", value |-> <<>>]
          ELSE [error |-> "none",
                value |-> [a \in DOMAIN w[1] |-> [t \in 1..len |->
                    SumFn([bsj \in (DOMAIN x) \X (DOMAIN x[1]) \X (DOMAIN w[1][1]) |->
                             IF bsj[2] + bsj[3] - 1 - p = t
                               THEN x[bsj[1]][bsj[2]] * w[bsj[1]][a][bsj[3]]
                               ELSE 0])]]]

\* Entry-by-entry difference and sum of two real tensors.
Minus(y, z) == [a \in DOMAIN y |-> [t \in DOMAIN y[a] |-> y[a][t] - z[a][t]]]
Plus(y, z) == [a \in DOMAIN y |-> [t \in DOMAIN y[a] |-> y[a][t] + z[a][t]]]

\* A variant of conv_cmplx without w = w.transpose(1, 2).
conv_cmplx_val_untransposed(x, w, trans, p) ==
    LET prim(y, v) == IF trans THEN conv_transpose2d_val(y, v, p)
                               ELSE conv2d_val(y, v, p)
    IN  IF prim(x[1], w[1]).error # "none"
          THEN prim(x[1], w[1])
          ELSE [error |-> "none",
                value |-> cmplx(Minus(prim(x[1], w[1]).value, prim(x[2], w[2]).value),
                                Plus(prim(x[1], w[2]).value, prim(x[2], w[1]).value))]

\* conv_cmplx(x, w, transpose, padding=p) on values.
conv_cmplx_val(x, w, trans, p) ==
    LET prim(y, v) == IF trans THEN conv_transpose2d_val(y, v, p)
                               ELSE conv2d_val(y, v, p)
        wt == IF trans THEN <<transpose(w[1]), transpose(w[2])>> ELSE w
    IN  IF prim(x[1], wt[1]).error # "none"
          THEN prim(x[1], wt[1])
          ELSE [error |-> "none",
                value |-> cmplx(Minus(prim(x[1], wt[1]).value, prim(x[2], wt[2]).value),
                                Plus(prim(x[1], wt[2]).value, prim(x[2], wt[1]).value))]

\* ---- the calls
InitMult ==
    \E args \in MultArgs : call = [phase |-> "args", op |-> "cmplx_mult", args |-> args]

InitConv ==
    \E x \in ConvInputs \X ConvInputs, w \in ConvWeights \X ConvWeights,
       trans \in BOOLEAN, p \in ConvPaddings :
        call = [phase |-> "args", op |-> "conv_cmplx",
                x |-> x, w |-> w, transpose |-> trans, padding |-> p]

\* out = cmplx_mult(*args)
CmplxMult ==
    /\ call.phase = "args" /\ call.op = "cmplx_mult"
    /\ call' = [call EXCEPT !.phase = "done"] @@ [out |-> cmplx_mult(call.args)]
    /\ UNCHANGED <<cacheVars, conv, pooling, net>>

\* out = conv_cmplx(x, w, transpose=transpose, padding=padding)
ConvCmplx ==
    /\ call.phase = "args" /\ call.op = "conv_cmplx"
    /\ call' = [call EXCEPT !.phase = "done"]
                 @@ [out |-> conv_cmplx_val(call.x, call.w, call.transpose, call.padding)]
    /\ UNCHANGED <<cacheVars, conv, pooling, net>>

Returned(op) == call.phase = "done" /\ call.op = op

\* C11: cmplx_mult(x, y) is (re_x*re_y - im_x*im_y, re_x*im_y + im_x*re_y),
\* and a chained call of three arguments equals the product under both
\* groupings and under every order of its arguments.
C11_CmplxMultIsAssociativeProduct ==
    Returned("cmplx_mult") =>
        LET a == call.args[1]
            b == call.args[2]
        IN  IF Len(call.args) = 2
              THEN /\ call.out = <<a[1] * b[1] - a[2] * b[2], a[1] * b[2] + a[2] * b[1]>>
                   /\ call.out = ComplexProduct(b, a)
              ELSE LET c == call.args[3] IN
                   /\ call.out = ComplexProduct(ComplexProduct(a, b), c)
                   /\ call.out = ComplexProduct(a, ComplexProduct(b, c))
                   /\ call.out = ComplexProduct(ComplexProduct(b, a), c)
                   /\ call.out = ComplexProduct(ComplexProduct(a, c), b)
                   /\ call.out = ComplexProduct(ComplexProduct(c, b), a)
                   /\ call.out = ComplexProduct(c, ComplexProduct(b, a))

\* C11 witness: a chained product of three numbers with nonzero real and
\* imaginary parts was computed.
C11_Witness ==
    /\ Returned("cmplx_mult")
    /\ call.args = <<<<1, 1>>, <<1, -1>>, <<-1, 1>>>>
    /\ call.out = <<-2, 2>>

\* The complex convolution written as one sum of complex products over the
\* input channels b, the input positions s and the taps j that meet at the
\* output position t.
DirectConv(x, w, trans, p, a, t) ==
    LET terms == [bsj \in (1..ConvShape.in) \X (1..ConvShape.len) \X (1..ConvShape.taps) |->
                    LET b == bsj[1]
                        s == bsj[2]
                        j == bsj[3]
                        meets == IF trans THEN s + j - 1 - p = t
                                          ELSE t + j - 1 - p = s
                    IN  IF meets
                          THEN ComplexProduct(<<x[1][b][s], x[2][b][s]>>,
                                              <<w[1][a][b][j], w[2][a][b][j]>>)
                          ELSE <<0, 0>>]
    IN  <<SumFn([i \in DOMAIN terms |-> terms[i][1]]),
          SumFn([i \in DOMAIN terms |-> terms[i][2]])>>

\* C12: conv_cmplx(x, w) is (conv(re_x, re_w) - conv(im_x, im_w),
\* conv(re_x, im_w) + conv(im_x, re_w)); with transpose=True conv is the
\* transposed convolution and the weight has its axes 1 and 2 swapped.  In
\* both modes every output entry is the sum of the complex products of the
\* inputs and taps that meet there.
C12_ConvCmplxIsFourRealConvs ==
    Returned("conv_cmplx") =>
        LET x == call.x
            w == call.w
            p == call.padding
            wt == <<transpose(w[1]), transpose(w[2])>>
            out == call.out.value
            four == IF call.transpose
                      THEN <<Minus(conv_transpose2d_val(x[1], wt[1], p).value,
                                   conv_transpose2d_val(x[2], wt[2], p).value),
                             Plus(conv_transpose2d_val(x[1], wt[2], p).value,
                                  conv_transpose2d_val(x[2], wt[1], p).value)>>
                      ELSE <<Minus(conv2d_val(x[1], w[1], p).value,
                                   conv2d_val(x[2], w[2], p).value),
                             Plus(conv2d_val(x[1], w[2], p).value,
                                  conv2d_val(x[2], w[1], p).value)>>
            fails == IF call.transpose
                       THEN conv_transpose2d_val(x[1], wt[1], p).error # "none"
                       ELSE conv2d_val(x[1], w[1], p).error # "none"
        IN  /\ fails <=> call.out.error # "none"
            /\ ~fails =>
                  /\ out = four
                  /\ DOMAIN out[1] = 1..ConvShape.out
                  /\ \A a \in 1..ConvShape.out : \A t \in DOMAIN out[1][a] :
                        <<out[1][a][t], out[2][a][t]>>
                            = DirectConv(x, w, call.transpose, p, a, t)

\* C12 witness: a transposed complex convolution returned two output channels
\* that differ, with a nonzero imaginary part.
C12_Witness ==
    /\ Returned("conv_cmplx")
    /\ call.transpose
    /\ call.out.error = "none"
    /\ call.out.value[1][1] # call.out.value[1][2]
    /\ \E t \in DOMAIN call.out.value[2][1] : call.out.value[2][1][t] # 0

\* ---- ReLUCmplx and the activations it dispatches to.  A complex tensor of
\* ReluLen entries is <<real entries, imaginary entries>>.
ReluLen == <<2>>
ReluEntries == 1..ReluLen[1]
ReluInputs ==
    [ReluEntries -> (-MaxC)..MaxC] \X [ReluEntries -> (-MaxC)..MaxC]
\* The channels argument of ReLUCmplx: None (written <<>>) or <<n>> with n
\* in 1..MaxChannels.
MaxChannels == 2
ChannelArgs == {<<>>} \cup {<<n>> : n \in 1..MaxChannels}
ReluTypes == {"c", "z", "mod", "other"}

\* torch.where(cond, a, b) with cond broadcast over the leading axis.
where(cond, a, b) ==
    <<[e \in DOMAIN cond |-> IF cond[e] THEN a[1][e] ELSE b[1][e]],
      [e \in DOMAIN cond |-> IF cond[e] THEN a[2][e] ELSE b[2][e]]>>

zeros_like(x) == <<[e \in DOMAIN x[1] |-> 0], [e \in DOMAIN x[2] |-> 0]>>

\* relu_cmplx(x): cmplx(F.relu(x[0]), F.relu(x[1])).
relu_cmplx(x) ==
    cmplx([e \in DOMAIN x[1] |-> IF x[1][e] > 0 THEN x[1][e] ELSE 0],
          [e \in DOMAIN x[2] |-> IF x[2][e] > 0 THEN x[2][e] ELSE 0])

\* A variant of relu_cmplx_z that gates each component by its own sign.
relu_cmplx_z_separate(x) ==
    cmplx(where([e \in DOMAIN x[1] |-> x[1][e] > 0], x, zeros_like(x))[1],
          where([e \in DOMAIN x[2] |-> x[2][e] > 0], x, zeros_like(x))[2])

\* relu_cmplx_z(x): x is kept where x[0] > 0, then where x[1] > 0.
relu_cmplx_z(x) ==
    LET y == where([e \in DOMAIN x[1] |-> x[1][e] > 0], x, zeros_like(x))
    IN  where([e \in DOMAIN y[2] |-> y[2][e] > 0], y, zeros_like(y))

\* A variant of ReLUCmplx_init that leaves the bias trainable.
ReLUCmplx_init_trainable(relu_type, channels, optimize) ==
    CASE relu_type = "c" -> [error |-> "none", relu |-> "relu_cmplx", parameters |-> <<>>]
      [] relu_type = "z" -> [error |-> "none", relu |-> "relu_cmplx_z", parameters |-> <<>>]
      [] relu_type = "mod" ->
            IF channels = <<>>
              THEN [error |-> IF optimize THEN "TypeError" ELSE "AssertionError",
                    relu |-> "unset", parameters |-> <<>>]
              ELSE [error |-> "none", relu |-> "relu_cmplx_mod",
                    parameters |-> [b |-> [shape |-> <<channels[1], 1, 1>>,
                                           requires_grad |-> TRUE, data |-> 0]]]
      [] OTHER -> [error |-> "none", relu |-> "unset", parameters |-> <<>>]

\* ReLUCmplx.__init__(relu_type=..., channels=...): 'mod' asserts that
\* channels is given (with assertions compiled out, torch.Tensor(None, 1, 1)
\* raises instead), registers the bias b of shape [channels, 1, 1] and clears
\* its requires_grad; a relu_type outside 'c', 'z', 'mod' sets no function.
ReLUCmplx_init(relu_type, channels, optimize) ==
    CASE relu_type = "c" -> [error |-> "none", relu |-> "relu_cmplx", parameters |-> <<>>]
      [] relu_type = "z" -> [error |-> "none", relu |-> "relu_cmplx_z", parameters |-> <<>>]
      [] relu_type = "mod" ->
            IF channels = <<>>
              THEN [error |-> IF optimize THEN "TypeError" ELSE "AssertionError",
                    relu |-> "unset", parameters |-> <<>>]
              ELSE [error |-> "none", relu |-> "relu_cmplx_mod",
                    parameters |-> [b |-> [shape |-> <<channels[1], 1, 1>>,
                                           requires_grad |-> FALSE, data |-> 0]]]
      [] OTHER -> [error |-> "none", relu |-> "unset", parameters |-> <<>>]

\* ReLUCmplx.forward(x) for the functions 'c' and 'z'; with no function set
\* the attribute lookup fails.
ReLUCmplx_forward(module, x) ==
    CASE module.relu = "relu_cmplx" -> [error |-> "none", value |-> relu_cmplx(x)]
      [] module.relu = "relu_cmplx_z" -> [error |-> "none", value |-> relu_cmplx_z(x)]
      [] OTHER -> [error |-> "AttributeError", value |-> <<>>]

\* loss.backward(); optimizer.step(): a parameter with requires_grad gets a
\* gradient and is moved by d, one without has no gradient and is skipped.
optimizer_step(parameters, d) ==
    [n \in DOMAIN parameters |->
        IF parameters[n].requires_grad
          THEN [parameters[n] EXCEPT !.data = @ + d]
          ELSE parameters[n]]

InitReLU ==
    \E t \in ReluTypes, c \in ChannelArgs, o \in BOOLEAN,
       x \in ReluInputs :
        call = [phase |-> "args", op |-> "ReLUCmplx", relu_type |-> t,
                channels |-> c, optimize |-> o, x |-> x]

\* module = ReLUCmplx(relu_type=relu_type, channels=channels)
ReLUConstruct ==
    /\ call.phase = "args" /\ call.op = "ReLUCmplx"
    /\ LET m == ReLUCmplx_init(call.relu_type, call.channels, call.optimize) IN
       call' = [call EXCEPT !.phase = IF m.error = "none" THEN "built" ELSE "failed"]
                 @@ [module |-> m]
    /\ UNCHANGED <<cacheVars, conv, pooling, net>>

\* out = module(x)
ReLUForward ==
    /\ call.phase = "built" /\ call.op = "ReLUCmplx"
    /\ call.module.relu # "relu_cmplx_mod"
    /\ call' = [call EXCEPT !.phase = "done"]
                 @@ [out |-> ReLUCmplx_forward(call.module, call.x)]
    /\ UNCHANGED <<cacheVars, conv, pooling, net>>

\* out2 = module(out)
ReLUAgain ==
    /\ call.phase = "done" /\ call.op = "ReLUCmplx"
    /\ call.out.error = "none"
    /\ call' = [call EXCEPT !.phase = "again"]
                 @@ [out2 |-> ReLUCmplx_forward(call.module, call.out.value)]
    /\ UNCHANGED <<cacheVars, conv, pooling, net>>

\* One training step of a network that holds the module.
ReLUTrain(d) ==
    /\ call.phase = "built" /\ call.op = "ReLUCmplx"
    /\ call.module.relu = "relu_cmplx_mod"
    /\ call' = [call EXCEPT !.phase = "trained",
                            !.module.parameters = optimizer_step(@, d)]
                 @@ [before |-> call.module.parameters]
    /\ UNCHANGED <<cacheVars, conv, pooling, net>>

\* The entry e of a complex tensor.
Entry(x, e) == <<x[1][e], x[2][e]>>

ReluZReturned ==
    /\ call.op = "ReLUCmplx" /\ call.phase \in {"done", "again"}
    /\ call.relu_type = "z"

\* C13 (as stated): for every entry the output of ReLU 'z' equals the input if
\* and only if both components of the input are strictly positive, otherwise
\* both output components are zero; applying it twice gives the same result.
C13_JointGateIff ==
    ReluZReturned =>
        /\ call.out.error = "none"
        /\ \A e \in ReluEntries :
              LET pos == call.x[1][e] > 0 /\ call.x[2][e] > 0 IN
              /\ (Entry(call.out.value, e) = Entry(call.x, e)) <=> pos
              /\ ~pos => Entry(call.out.value, e) = <<0, 0>>
        /\ call.phase = "again" => call.out2 = call.out

\* C13 (amended): for every entry the output of ReLU 'z' is the input when
\* both components of the input are strictly positive and is zero in both
\* components otherwise (an entry that is zero is thus returned as it is);
\* applying it twice gives the same result.
C13_JointGate ==
    ReluZReturned =>
        /\ call.out.error = "none"
        /\ \A e \in ReluEntries :
              Entry(call.out.value, e) =
                  IF call.x[1][e] > 0 /\ call.x[2][e] > 0
                    THEN Entry(call.x, e) ELSE <<0, 0>>
        /\ call.phase = "again" => call.out2 = call.out

\* C13 witness: applied twice to a tensor with one entry in the first
\* quadrant and one with a negative imaginary part, the first entry passed
\* and the second was zeroed in both components.
C13_Witness ==
    /\ ReluZReturned /\ call.phase = "again"
    /\ Entry(call.x, 1) = <<1, 1>> /\ Entry(call.x, 2) = <<1, -1>>
    /\ Entry(call.out2.value, 1) = <<1, 1>> /\ Entry(call.out2.value, 2) = <<0, 0>>

\* C14: ReLUCmplx(relu_type='mod') without channels fails in the constructor;
\* with channels it is constructed with a parameter b of shape [channels, 1, 1]
\* that does not require gradients, and a training step leaves b as it was.
C14_ModNeedsChannels ==
    (call.op = "ReLUCmplx" /\ call.relu_type = "mod" /\ call.phase # "args") =>
        /\ call.channels = <<>> <=> call.phase = "failed"
        /\ call.phase = "failed" => call.module.error \in {"AssertionError", "TypeError"}
        /\ call.phase # "failed" =>
              /\ DOMAIN call.module.parameters = {"b"}
              /\ call.module.parameters.b.shape = <<call.channels[1], 1, 1>>
              /\ ~call.module.parameters.b.requires_grad
        /\ call.phase = "trained" => call.module.parameters = call.before

\* C14 witness: a 'mod' activation with two channels went through a training
\* step.
C14_Witness ==
    /\ call.op = "ReLUCmplx" /\ call.relu_type = "mod"
    /\ call.channels = <<2>>
    /\ call.phase = "trained"

\* ---- magnitude with its arguments eps and sq.  A tensor of MagLen entries;
\* the components are multiples of ValStep in units of 1e-5, so that squares
\* are in the units of Eps.
MagLen == <<2>>
MagEntries == 1..MagLen[1]
MagVals == {k * ValStep : k \in (-(MaxVal + 1))..(MaxVal + 1)}
MagInputs == [MagEntries -> MagVals] \X [MagEntries -> MagVals]
\* The values callers give eps: the default and a larger one.
EpsArgs == {Eps, 4 * Eps}

\* A variant of magnitude without the clamp.
magnitude_unclamped(x, eps, sq) ==
    [root |-> ~sq, of |-> [e \in DOMAIN x[1] |-> x[1][e] * x[1][e] + x[2][e] * x[2][e]]]

\* magnitude(x, eps, sq): x.pow(2).sum(dim=0), returned as it is when sq,
\* else torch.sqrt(torch.clamp(., min=eps)).  The result is held as
\* [root, of]: the entries of 'of', under a square root when root is TRUE.
magnitude_x(x, eps, sq) ==
    LET s == [e \in DOMAIN x[1] |-> x[1][e] * x[1][e] + x[2][e] * x[2][e]]
    IN  IF sq THEN [root |-> FALSE, of |-> s]
        ELSE [root |-> TRUE, of |-> [e \in DOMAIN s |-> IF s[e] < eps THEN eps ELSE s[e]]]

InitMagnitude ==
    \E x \in MagInputs, eps \in EpsArgs, sq \in BOOLEAN :
        call = [phase |-> "args", op |-> "magnitude", x |-> x, eps |-> eps, sq |-> sq]

\* out = magnitude(x, eps=eps, sq=sq)
Magnitude ==
    /\ call.phase = "args" /\ call.op = "magnitude"
    /\ call' = [call EXCEPT !.phase = "done"]
                 @@ [out |-> magnitude_x(call.x, call.eps, call.sq)]
    /\ UNCHANGED <<cacheVars, conv, pooling, net>>

\* C15: with sq=False, magnitude returns for every entry the nonnegative m
\* with m*m = max(re*re + im*im, eps): m*m is at least eps, so m is finite and
\* at least sqrt(eps) > 0, for the all-zero input too.
C15_MagnitudeClamped ==
    (Returned("magnitude") /\ ~call.sq) =>
        /\ call.out.root
        /\ \A e \in MagEntries :
              LET s == call.x[1][e] * call.x[1][e] + call.x[2][e] * call.x[2][e]
              IN  /\ call.out.of[e] = IF s > call.eps THEN s ELSE call.eps
                  /\ call.out.of[e] >= call.eps
                  /\ call.out.of[e] > 0

\* C15 witness: the magnitude of the all-zero tensor was computed with the
\* default eps.
C15_Witness ==
    /\ Returned("magnitude") /\ ~call.sq
    /\ call.eps = Eps
    /\ \A e \in MagEntries : call.x[1][e] = 0 /\ call.x[2][e] = 0
    /\ \A e \in MagEntries : call.out.of[e] = Eps

\* ---- init_weights called on a complex weight [2, out, in, kh, kw].
InitWeightShapes ==
    {<<2, o, i, k, k>> : o \in 1..MaxIn, i \in 1..MaxIn, k \in KernelSizes}

InitInitWeights ==
    \E w \in InitWeightShapes, mode \in WeightInits, polar \in BOOLEAN :
        call = [phase |-> "args", op |-> "init_weights", w |-> w,
                mode |-> mode, polar |-> polar]

\* init_weights(w, mode=mode, polar=polar)
InitWeights ==
    /\ call.phase = "args" /\ call.op = "init_weights"
    /\ call' = [call EXCEPT !.phase = "done"]
                 @@ [out |-> init_weights(call.w, call.mode, call.polar)]
    /\ UNCHANGED <<cacheVars, conv, pooling, net>>

\* C16: init_weights takes fan_in = in * kh * kw and fan_out = out * kh * kw
\* from the real-part kernel and samples the magnitudes with a Rayleigh scale
\* sigma with sigma^2 = 1 / fan_in for 'he' and sigma^2 = 1 / (fan_in + fan_out)
\* for 'glorot'.
C16_RayleighScale ==
    (Returned("init_weights") /\ call.mode \in {"he", "glorot"}) =>
        /\ call.out.error = "none"
        /\ call.out.fan_in = call.w[3] * call.w[4] * call.w[5]
        /\ call.out.fan_out = call.w[2] * call.w[4] * call.w[5]
        /\ call.mode = "he" => call.out.inv_sigma_sq = call.out.fan_in
        /\ call.mode = "glorot" =>
              call.out.inv_sigma_sq = call.out.fan_in + call.out.fan_out

\* ---- segmentation.load: a checkpoint's model_state_dict maps keys to
\* tensors.  A key is the sequence of its dot-separated components; a tensor
\* is its shape and its content (the entry it was stored as, and what was
\* done to it).
StateKeys ==
    {<<"inc", "conv1", "0", "weight">>,
     <<"down1", "0", "weight">>,
     <<"inc", "conv1", "0", "gabor", "gabor_filters">>,
     <<"gabor_filters">>,
     <<"up4", "gabor_filters", "weight">>,
     <<"outc", "bias">>}
StoredShapes == {<<2, 2, 3, 3>>, <<1, 2, 1, 3, 3>>, <<2, 2, 1, 1, 3, 3>>}
Checkpoints ==
    {[k \in ks |-> [shape |-> s, data |-> <<"stored", k>>]] :
        ks \in SUBSET StateKeys, s \in StoredShapes}
\* model.preprocess: None, the flag False create_model passes for a variant
\* without scaling, or a scaling module with n_scaling.
Preprocesses ==
    {[kind |-> "None"], [kind |-> "False"], [kind |-> "module", n_scaling |-> 2]}

\* t.repeat(*reps)
repeat(t, reps) ==
    LET pad == [i \in 1..(Len(reps) - Len(t.shape)) |-> 1] \o t.shape
    IN  [shape |-> [i \in 1..Len(reps) |-> pad[i] * reps[i]],
         data |-> <<"repeat", reps, t.data>>]

\* t.squeeze_(0)
squeeze0(t) ==
    IF t.shape # <<>> /\ t.shape[1] = 1
      THEN [t EXCEPT !.shape = Tail(t.shape)] ELSE t

\* t.unsqueeze(d)
unsqueeze(t, d) == [t EXCEPT !.shape = Unsqueeze(t.shape, d)]

\* key.split('.')[-1]
LastComponent(key) == key[Len(key)]

\* The pretraining adaptation of load (lines 221-234): the first layer's
\* weight is repeated along its input-channel axis.
load_pretrain(sd, preprocess, att) ==
    LET scal_key == IF att THEN <<"down1", "0", "weight">>
                           ELSE <<"inc", "conv1", "0", "weight">>
    IN  IF scal_key \notin DOMAIN sd
          THEN [error |-> "KeyError", sd |-> sd]
        ELSE IF preprocess.kind = "False"
          THEN [error |-> "AttributeError", sd |-> sd]
        ELSE IF Len(sd[scal_key].shape) > 5
          THEN [error |-> "RuntimeError", sd |-> sd]
        ELSE
          LET out_c == IF preprocess.kind = "None" THEN 1 ELSE preprocess.n_scaling
              r == repeat(sd[scal_key], <<1, 1, 2 * out_c, 1, 1>>)
          IN  [error |-> "none",
               sd |-> [sd EXCEPT ![scal_key] = IF att THEN squeeze0(r) ELSE r]]

\* A variant of load_legacy that reshapes every key that contains the
\* component gabor_filters.
load_legacy_any(sd) ==
    [k \in DOMAIN sd |->
        IF \E i \in 1..Len(k) : k[i] = "gabor_filters"
          THEN unsqueeze(sd[k], 1) ELSE sd[k]]

\* The legacy branch of load (lines 235-238).
load_legacy(sd) ==
    [k \in DOMAIN sd |->
        IF LastComponent(k) = "gabor_filters" THEN unsqueeze(sd[k], 1) ELSE sd[k]]

\* load(model, save_path, legacy, pretrain, att): the state dict it hands to
\* model.load_state_dict(., strict=False), and the dict as it was between the
\* two branches.
load(preprocess, checkpoint, legacy, pretrain, att) ==
    LET a == IF pretrain THEN load_pretrain(checkpoint, preprocess, att)
                         ELSE [error |-> "none", sd |-> checkpoint]
    IN  IF a.error # "none"
          THEN [error |-> a.error, adapted |-> a.sd, state_dict |-> a.sd]
          ELSE [error |-> "none", adapted |-> a.sd,
                state_dict |-> IF legacy THEN load_legacy(a.sd) ELSE a.sd]

InitLoad ==
    \E c \in Checkpoints, m \in Preprocesses, legacy \in BOOLEAN,
       pretrain \in BOOLEAN, att \in BOOLEAN :
        call = [phase |-> "args", op |-> "load", checkpoint |-> c, preprocess |-> m,
                legacy |-> legacy, pretrain |-> pretrain, att |-> att]

\* load(model, save_path, legacy, pretrain, att)
Load ==
    /\ call.phase = "args" /\ call.op = "load"
    /\ call' = [call EXCEPT !.phase = "done"]
                 @@ [out |-> load(call.preprocess, call.checkpoint, call.legacy,
                                  call.pretrain, call.att)]
    /\ UNCHANGED <<cacheVars, conv, pooling, net>>

\* C17: the legacy branch of the loader gives every entry whose key ends in
\* the component gabor_filters exactly one more axis, of size 1, at position 1
\* (same content, the other axes in order), and leaves every other entry as it
\* was, in shape and in value; without the pretraining adaptation that is the
\* checkpoint as it was read.
C17_LegacyInsertsOneAxis ==
    (Returned("load") /\ call.legacy /\ call.out.error = "none") =>
        LET before == call.out.adapted
            after == call.out.state_dict
        IN  /\ DOMAIN after = DOMAIN before
            /\ ~call.pretrain => before = call.checkpoint
            /\ \A k \in DOMAIN before :
                  IF k[Len(k)] = "gabor_filters"
                    THEN /\ after[k].data = before[k].data
                         /\ Len(after[k].shape) = Len(before[k].shape) + 1
                         /\ after[k].shape[1] = before[k].shape[1]
                         /\ after[k].shape[2] = 1
                         /\ \A i \in 2..Len(before[k].shape) :
                               after[k].shape[i + 1] = before[k].shape[i]
                    ELSE after[k] = before[k]

\* C17 witness: a legacy load of a checkpoint that holds a gabor_filters
\* buffer of shape [2, 2, 3, 3] and a key with gabor_filters inside it.
C17_Witness ==
    /\ Returned("load") /\ call.legacy /\ call.out.error = "none"
    /\ <<"up4", "gabor_filters", "weight">> \in DOMAIN call.checkpoint
    /\ <<"gabor_filters">> \in DOMAIN call.checkpoint
    /\ call.checkpoint[<<"gabor_filters">>].shape = <<2, 2, 3, 3>>
    /\ call.out.state_dict[<<"gabor_filters">>].shape = <<2, 1, 2, 3, 3>>

\* A shape without its leading axes of size 1.
RECURSIVE StripOnes(_)
StripOnes(shape) ==
    IF shape # <<>> /\ Head(shape) = 1 THEN StripOnes(Tail(shape)) ELSE shape

\* The key of the first layer's weight that load adapts.
ScalKey(att) ==
    IF att THEN <<"down1", "0", "weight">> ELSE <<"inc", "conv1", "0", "weight">>

\* C25: with pretrain, load replaces the first-layer weight of the checkpoint
\* (a tensor of rank 4 or 5) by that weight repeated 2 * out_c times along its
\* input-channel axis, the third from the end, where out_c is n_scaling of
\* the model's preprocessing stage and 1 for a model without one (preprocess
\* None, or the False that create_model passes); no other entry is changed.
C25_PretrainRepeatsInputChannels ==
    (/\ Returned("load") /\ call.pretrain
     /\ ScalKey(call.att) \in DOMAIN call.checkpoint
     /\ Len(call.checkpoint[ScalKey(call.att)].shape) <= 5) =>
        LET key == ScalKey(call.att)
            out_c == IF call.preprocess.kind = "module"
                       THEN call.preprocess.n_scaling ELSE 1
            w == call.checkpoint[key]
            a == call.out.adapted
        IN  /\ call.out.error = "none"
            /\ DOMAIN a = DOMAIN call.checkpoint
            /\ \A k \in DOMAIN a \ {key} : a[k] = call.checkpoint[k]
            /\ a[key].data = <<"repeat", <<1, 1, 2 * out_c, 1, 1>>, w.data>>
            /\ StripOnes(a[key].shape) =
                  StripOnes([w.shape EXCEPT ![Len(w.shape) - 2] = @ * 2 * out_c])

\* ------------------------------------------- two layers of one network
\* Two IGConvCmplx instances, each constructed on its own.  A layer holds its
\* kernels, its Gabor parameters, the reference to its cached bank, its flag,
\* whether an autograd graph through it is alive, and its configuration.
LayerIds == {1, 2}
NetPoolings == {"None", "max"}

\* The arguments the layers of the network are constructed with.
NetArgs(p) ==
    [input_features |-> 1, output_features |-> NoG * BaseKernels,
     kernel_size |-> 3, no_g |-> NoG, gabor_pooling |-> p,
     weight_init |-> "None", conv_kwargs |-> [stride |-> 1, padding |-> 0]]

\* IGConvCmplx(...) in a process whose live tensors are h: the layer and the
\* heap with the layer's newly allocated buffer.
NewLayer(h, p, junk) ==
    LET c == IGConvCmplx_init(NetArgs(p))
        g == IGaborCmplx_init(junk)
        r == NewRef(h)
    IN  [heap  |-> [q \in DOMAIN h \cup {r} |->
                       IF q = r THEN g.heap[g.gabor_filters] ELSE h[q]],
         layer |-> [ReConv |-> 0, ImConv |-> 0, gabor_params |-> 0,
                    gabor_filters |-> r, calc_filters |-> g.calc_filters,
                    graph |-> FALSE,
                    no_g |-> c.no_g, gabor_pooling |-> c.gabor_pooling,
                    conv_kwargs |-> c.conv_kwargs, weight |-> c.weight]]

\* Tensors no layer refers to are freed.
CollectNet(h, layers) ==
    [r \in {layers[i].gabor_filters : i \in DOMAIN layers} \cap DOMAIN h |-> h[r]]

\* A variant of layer_forward that also writes the modulated weight back into
\* the real kernel.
layer_forward_writes(h, L, keep) ==
    LET r == IGaborCmplx_forward(h, L.gabor_filters, L.calc_filters, L.gabor_params,
                                 cmplx(KernelOf(L.ReConv), KernelOf(L.ImConv)))
    IN  [heap  |-> r.state.heap,
         layer |-> [L EXCEPT !.gabor_filters = r.state.gabor_filters,
                             !.calc_filters = r.state.calc_filters,
                             !.graph = @ \/ keep,
                             !.ReConv = (@ + 1) % (MaxWeight + 1)]]

\* IGConvCmplx.forward of the layer L: what it does to the layer and to the
\* heap (keep = FALSE: under no_grad, no graph is kept).
layer_forward(h, L, keep) ==
    LET r == IGaborCmplx_forward(h, L.gabor_filters, L.calc_filters, L.gabor_params,
                                 cmplx(KernelOf(L.ReConv), KernelOf(L.ImConv)))
    IN  [heap  |-> r.state.heap,
         layer |-> [L EXCEPT !.gabor_filters = r.state.gabor_filters,
                             !.calc_filters = r.state.calc_filters,
                             !.graph = @ \/ keep]]

\* A variant of backward_hook that marks the banks of all layers.
backward_hook_all(layers, i) ==
    [j \in DOMAIN layers |->
        [layers[j] EXCEPT !.calc_filters = set_filter_calc(@),
                          !.graph = IF j = i THEN FALSE ELSE @]]

\* self.register_backward_hook(self.set_filter_calc): the hook of layer i is
\* the method bound to layer i; the backward pass frees the graph.
backward_hook(layers, i) ==
    [layers EXCEPT ![i].calc_filters = set_filter_calc(@), ![i].graph = FALSE]

InitNet ==
    /\ InitCache({[g \in Orientations |-> <<0, 0>>]})
    /\ conv = NoConv
    /\ pooling = NoPooling
    /\ call = NoCall
    /\ \E j1 \in Garbage, j2 \in Garbage, p1 \in NetPoolings, p2 \in NetPoolings :
          LET a == NewLayer(<<>>, p1, j1)
              b == NewLayer(a.heap, p2, j2)
          IN  net = [phase |-> "built", layers |-> <<a.layer, b.layer>>,
                     heap |-> b.heap, grad |-> FALSE,
                     last |-> [op |-> "init", layer |-> 0]]

\* out = layers[i](x)
NetForward(i, keep) ==
    /\ net.phase = "built"
    /\ LET r == layer_forward(net.heap, net.layers[i], keep)
           ls == [net.layers EXCEPT ![i] = r.layer]
       IN  net' = [net EXCEPT !.layers = ls,
                              !.heap = CollectNet(r.heap, ls),
                              !.last = [op |-> "forward", layer |-> i]]
    /\ UNCHANGED <<cacheVars, conv, pooling, call>>

\* A backward pass through the graph of layer i: its hook fires.
NetBackward(i) ==
    /\ net.phase = "built"
    /\ net.layers[i].graph
    /\ net' = [net EXCEPT !.layers = backward_hook(net.layers, i),
                          !.grad = TRUE,
                          !.last = [op |-> "hook", layer |-> i]]
    /\ UNCHANGED <<cacheVars, conv, pooling, call>>

\* optimizer.step(): the parameters of the network are updated (the Gabor
\* parameters of all layers to p, the kernels of all layers to w).
NetStep(p, w) ==
    /\ net.phase = "built"
    /\ net.grad
    /\ net' = [net EXCEPT !.layers = [j \in DOMAIN net.layers |->
                                         [net.layers[j] EXCEPT !.gabor_params = p,
                                                               !.ReConv = w,
                                                               !.ImConv = w]],
                          !.last = [op |-> "step", layer |-> 0]]
    /\ UNCHANGED <<cacheVars, conv, pooling, call>>

NextNet ==
    \/ \E i \in LayerIds, keep \in BOOLEAN : NetForward(i, keep)
    \/ \E i \in LayerIds : NetBackward(i)
    \/ \E p \in ParamVals, w \in WeightVals : NetStep(p, w)

SpecNet == InitNet /\ [][NextNet]_vars

\* The cached bank of layer j in the state n of the network.
BankOf(n, j) == n.heap[n.layers[j].gabor_filters]

\* What a layer holds besides its filter cache.
Uncached(L) ==
    <<L.ReConv, L.ImConv, L.gabor_params, L.no_g, L.gabor_pooling,
      L.conv_kwargs, L.weight>>

\* C18: a forward call changes nothing of a layer but its filter cache: the
\* kernels, the Gabor parameters and the configuration (no_g, pooling mode,
\* convolution arguments) of every layer are after the call what they were
\* before it.
C18_ForwardChangesOnlyCache ==
    [][net'.last.op = "forward" =>
          \A j \in LayerIds : Uncached(net'.layers[j]) = Uncached(net.layers[j])]_vars

\* C18 witness: after an optimizer step moved the kernels and the Gabor
\* parameters, a forward regenerated the bank of layer 2.
C18_Witness ==
    /\ net.phase = "built"
    /\ net.last = [op |-> "forward", layer |-> 2]
    /\ net.layers[2].ReConv = 1 /\ net.layers[2].gabor_params = 1
    /\ ~net.layers[2].calc_filters
    /\ BankOf(net, 2).bank = gabor_cmplx(1)

\* C19: forwards and gradient hooks on one layer leave the cache flag, the
\* bank reference and the cached bank of the other layer unchanged.
C19_LayersOwnTheirCache ==
    [][net'.last.op \in {"forward", "hook"} =>
          \A j \in LayerIds \ {net'.last.layer} :
              /\ net'.layers[j].calc_filters = net.layers[j].calc_filters
              /\ net'.layers[j].gabor_filters = net.layers[j].gabor_filters
              /\ BankOf(net', j) = BankOf(net, j)]_vars

\* C19 witness: the hook of layer 1 has marked its bank while layer 2 holds a
\* valid bank, and the two cached banks differ.
C19_Witness ==
    /\ net.phase = "built"
    /\ net.last = [op |-> "hook", layer |-> 1]
    /\ net.layers[1].calc_filters /\ ~net.layers[2].calc_filters
    /\ BankOf(net, 1).init /\ BankOf(net, 2).init
    /\ BankOf(net, 1) # BankOf(net, 2)

\* ---------------------------------------------------- orientation pooling
\* max_mag_gabor_pool and max_summed_mag_gabor_pool on x = [2, 1, 1, G, H, W]:
\* x[1] is the real and x[2] the imaginary part, each [orientation][pixel],
\* the orientations counted from 0 as torch.max counts them.
\* GaborPoolShape holds G and H * W.
GaborPoolShape == <<2, 2>>
PoolOrients == 0..(GaborPoolShape[1] - 1)
PoolPixels == 1..GaborPoolShape[2]
\* The entries of x, in units of 1e-5: their magnitudes as magnitude computes
\* them are 10 (clamped), 10 (clamped), 10, 15, 16 and 20.
GaborPoolEntries ==
    {<<0, 0>>, <<8, 0>>, <<-6, 8>>, <<9, 12>>, <<16, 0>>, <<12, -16>>}
GaborPoolInputs ==
    {<<[g \in PoolOrients |-> [p \in PoolPixels |-> e[g][p][1]]],
       [g \in PoolOrients |-> [p \in PoolPixels |-> e[g][p][2]]]>> :
        e \in [PoolOrients -> [PoolPixels -> GaborPoolEntries]]}

\* torch.sqrt of a value that has a whole root.
torch_sqrt(v) == CHOOSE m \in 0..v : m * m = v

\* r = magnitude(x): [orientation][pixel].
magnitude_t(x) ==
    [g \in DOMAIN x[1] |->
        [p \in DOMAIN x[1][g] |-> torch_sqrt(magnitude(x[1][g][p], x[2][g][p]))]]

\* The index tensors torch.max(r, dim=2, keepdim=True) may return for
\* r = [orientation][position]: at every position an orientation that holds
\* the maximum over the orientations.
torch_max_indices(r) ==
    {idxs \in [DOMAIN r[0] -> DOMAIN r] :
        \A p \in DOMAIN r[0] : \A g \in DOMAIN r : r[g][p] <= r[idxs[p]][p]}

\* x.gather(dim=3, index=idxs).squeeze(3) with idxs = [2, 1, 1, 1, H, W]: the
\* output at component c and pixel p is x[c][idxs[c][p]][p].
gather3(x, idxs) ==
    <<[p \in DOMAIN idxs[1] |-> x[1][idxs[1][p]][p]],
      [p \in DOMAIN idxs[2] |-> x[2][idxs[2][p]][p]]>>

\* A variant of max_mag_gabor_pool that takes the index of each component from
\* the largest entry of that component.
max_mag_gabor_pool_split(x, i) ==
    LET idxs == <<CHOOSE j \in torch_max_indices(x[1]) : TRUE,
                  CHOOSE j \in torch_max_indices(x[2]) : TRUE>>
    IN  [value |-> gather3(x, idxs), idxs |-> idxs]

\* max_mag_gabor_pool(x): i is the index tensor torch.max returned; it is
\* repeated for the two components (idxs.unsqueeze(0).repeat(2, ...)).
max_mag_gabor_pool(x, i) ==
    LET idxs == <<i, i>>
    IN  [value |-> gather3(x, idxs), idxs |-> idxs]

\* A variant of max_summed_mag_gabor_pool that sums nothing: one index per
\* pixel.
max_summed_mag_gabor_pool_pixel(x, i) ==
    max_mag_gabor_pool(x, CHOOSE j \in torch_max_indices(magnitude_t(x)) : TRUE)

\* r_summed = magnitude(x).sum(dim=(-1, -2), keepdim=True): [orientation][1].
summed_magnitude(x) ==
    [g \in DOMAIN x[1] |-> [p \in {1} |-> SumFn(magnitude_t(x)[g])]]

\* max_summed_mag_gabor_pool(x): i is the index tensor [1, 1, 1, 1, 1] that
\* torch.max returned for r_summed; it is repeated for the two components and
\* over the H * W pixels.
max_summed_mag_gabor_pool(x, i) ==
    LET idxs == <<[p \in DOMAIN x[1][0] |-> i[1]], [p \in DOMAIN x[2][0] |-> i[1]]>>
    IN  [value |-> gather3(x, idxs), idxs |-> idxs]

InitGaborPool ==
    /\ InitCache({[g \in Orientations |-> <<0, 0>>]})
    /\ conv = NoConv
    /\ pooling = NoPooling
    /\ net = NoNet
    /\ \E x \in GaborPoolInputs, op \in {"max_mag_gabor_pool", "max_summed_mag_gabor_pool"} :
          call = [phase |-> "args", op |-> op, x |-> x]

\* out, idxs = max_mag_gabor_pool(x)
MaxMagGaborPool ==
    /\ call.phase = "args" /\ call.op = "max_mag_gabor_pool"
    /\ \E i \in torch_max_indices(magnitude_t(call.x)) :
          call' = [call EXCEPT !.phase = "done"]
                    @@ [out |-> max_mag_gabor_pool(call.x, i)]
    /\ UNCHANGED <<cacheVars, conv, pooling, net>>

\* out, idxs = max_summed_mag_gabor_pool(x)
MaxSummedMagGaborPool ==
    /\ call.phase = "args" /\ call.op = "max_summed_mag_gabor_pool"
    /\ \E i \in torch_max_indices(summed_magnitude(call.x)) :
          call' = [call EXCEPT !.phase = "done"]
                    @@ [out |-> max_summed_mag_gabor_pool(call.x, i)]
    /\ UNCHANGED <<cacheVars, conv, pooling, net>>

NextGaborPool ==
    \/ MaxMagGaborPool
    \/ MaxSummedMagGaborPool

SpecGaborPool == InitGaborPool /\ [][NextGaborPool]_vars

\* The magnitude of the entry of x at orientation g and pixel p, as whole
\* number: the root of max(re^2 + im^2, eps).
MagAt(x, g, p) ==
    LET s == x[1][g][p] * x[1][g][p] + x[2][g][p] * x[2][g][p]
    IN  CHOOSE m \in 0..(s + Eps) : m * m = IF s < Eps THEN Eps ELSE s

\* C21: max_mag_gabor_pool returns at every pixel the real and the imaginary
\* component of the input at one orientation, and that orientation is one
\* where the magnitude over the orientations is maximal at this pixel.
C21_MagGaborPoolTakesOneOrientation ==
    Returned("max_mag_gabor_pool") =>
        \A p \in PoolPixels :
            \E g \in PoolOrients :
                /\ call.out.value[1][p] = call.x[1][g][p]
                /\ call.out.value[2][p] = call.x[2][g][p]
                /\ call.out.idxs[1][p] = g /\ call.out.idxs[2][p] = g
                /\ \A h \in PoolOrients : MagAt(call.x, h, p) <= MagAt(call.x, g, p)

\* C21 witness: the pooling took pixel 1 from orientation 1 and pixel 2 from
\* orientation 0, and the result is not made of the largest real and the
\* largest imaginary entries.
C21_Witness ==
    /\ Returned("max_mag_gabor_pool")
    /\ call.out.idxs[1] = [p \in PoolPixels |-> IF p = 1 THEN 1 ELSE 0]
    /\ call.x[1][0][1] = 9 /\ call.x[2][0][1] = 12
    /\ call.x[1][1][1] = 12 /\ call.x[2][1][1] = -16
    /\ call.out.value[1][1] = 12 /\ call.out.value[2][1] = -16

\* C22: max_summed_mag_gabor_pool returns at every pixel the real and the
\* imaginary component of the input at one and the same orientation, and that
\* orientation is one where the magnitude summed over all pixels is maximal.
C22_SummedPoolTakesOneOrientation ==
    Returned("max_summed_mag_gabor_pool") =>
        \E g \in PoolOrients :
            /\ \A p \in PoolPixels :
                  /\ call.out.value[1][p] = call.x[1][g][p]
                  /\ call.out.value[2][p] = call.x[2][g][p]
                  /\ call.out.idxs[1][p] = g /\ call.out.idxs[2][p] = g
            /\ \A h \in PoolOrients :
                  SumFn([p \in PoolPixels |-> MagAt(call.x, h, p)])
                      <= SumFn([p \in PoolPixels |-> MagAt(call.x, g, p)])

\* C22 witness: orientation 0 holds magnitudes 20 and 10, orientation 1 holds
\* 16 and 15; the sum is larger at orientation 1, which was taken at both
\* pixels, also at pixel 1 where orientation 0 has the larger magnitude.
C22_Witness ==
    /\ Returned("max_summed_mag_gabor_pool")
    /\ call.x[1][0] = [p \in PoolPixels |-> IF p = 1 THEN 12 ELSE 0]
    /\ call.x[2][0] = [p \in PoolPixels |-> IF p = 1 THEN -16 ELSE 0]
    /\ call.x[1][1] = [p \in PoolPixels |-> IF p = 1 THEN 16 ELSE 9]
    /\ call.x[2][1] = [p \in PoolPixels |-> IF p = 1 THEN 0 ELSE 12]
    /\ call.out.value[1] = call.x[1][1] /\ call.out.value[2] = call.x[2][1]

\* ---- ReLU variant 'mod' on tensors with their axes.  A tensor is its shape
\* and its entries 'at' the sequences of its indices (counted from 1); what an
\* operation returns also says whether it raised.
Indices(shape) ==
    {idx \in [1..Len(shape) -> 1..MaxOf({1} \cup {shape[i] : i \in 1..Len(shape)})] :
        \A i \in 1..Len(shape) : idx[i] <= shape[i]}

Raised(e) == [error |-> e, shape |-> <<>>, at |-> <<>>]

\* The shape of a op b for tensors of the shapes a and b: the axes are aligned
\* at the last one, the shorter shape is filled up with 1s, two sizes must be
\* equal or one of them 1.
broadcast_shapes(a, b) ==
    LET n == IF Len(a) > Len(b) THEN Len(a) ELSE Len(b)
        pa == [i \in 1..(n - Len(a)) |-> 1] \o a
        pb == [i \in 1..(n - Len(b)) |-> 1] \o b
    IN  IF \E i \in 1..n : pa[i] # pb[i] /\ pa[i] # 1 /\ pb[i] # 1
          THEN [error |-> "RuntimeError", shape |-> <<>>]
          ELSE [error |-> "none",
                shape |-> [i \in 1..n |-> IF pa[i] = 1 THEN pb[i] ELSE pa[i]]]

\* The entry of t that broadcasting puts at the index idx of a result.
BroadcastAt(t, idx) ==
    LET d == Len(idx) - Len(t.shape)
    IN  t.at[[i \in 1..Len(t.shape) |-> IF t.shape[i] = 1 THEN 1 ELSE idx[i + d]]]

\* a op b, entry by entry with broadcasting.
Pointwise(Op(_, _), a, b) ==
    IF a.error # "none" THEN a
    ELSE IF b.error # "none" THEN b
    ELSE LET s == broadcast_shapes(a.shape, b.shape)
         IN  IF s.error # "none" THEN Raised(s.error)
             ELSE [error |-> "none", shape |-> s.shape,
                   at |-> [idx \in Indices(s.shape) |->
                              Op(BroadcastAt(a, idx), BroadcastAt(b, idx))]]

Add(u, v) == u + v
Mul(u, v) == u * v
\* A quotient is held as the fraction of its operands.
Div(u, v) == [num |-> u, den |-> v]

\* F.relu(t)
F_relu(t) ==
    IF t.error # "none" THEN t
    ELSE [t EXCEPT !.at = [idx \in DOMAIN t.at |-> IF t.at[idx] > 0 THEN t.at[idx] ELSE 0]]

\* r = magnitude(x, sq=False): x.pow(2).sum(dim=0), clamped at eps, square
\* root.
magnitude_r(x) ==
    [error |-> "none", shape |-> Tail(x.shape),
     at |-> [idx \in Indices(Tail(x.shape)) |->
                torch_sqrt(magnitude(x.at[<<1>> \o idx], x.at[<<2>> \o idx]))]]

\* b.flatten(0) of a tensor [n, 1, 1]
flatten(b) ==
    [error |-> "none", shape |-> <<Numel(b.shape)>>,
     at |-> [idx \in Indices(<<Numel(b.shape)>>) |->
                b.at[[i \in 1..Len(b.shape) |-> IF i = 1 THEN idx[1] ELSE 1]]]]

\* b.unsqueeze(-1)
unsqueeze_last(b) ==
    [error |-> "none", shape |-> b.shape \o <<1>>,
     at |-> [idx \in Indices(b.shape \o <<1>>) |-> b.at[SubSeq(idx, 1, Len(b.shape))]]]

\* relu_cmplx_mod(x, b): r = magnitude(x); b is flattened when r has a lower
\* rank than b and gets one more last axis when r has a higher rank; the
\* result is F.relu(r + b) * x / r.
relu_cmplx_mod(x, b) ==
    LET r == magnitude_r(x)
        bb == IF Len(r.shape) < Len(b.shape) THEN flatten(b)
              ELSE IF Len(r.shape) > Len(b.shape) THEN unsqueeze_last(b)
              ELSE b
    IN  Pointwise(Div, Pointwise(Mul, F_relu(Pointwise(Add, r, bb)), x), r)

\* The inputs of the 'mod' activation: complex tensors [2, B, C, 1, 1] of the
\* forward contract and [2, 1, C, G, 1, 1] with an orientation axis; entries
\* of magnitude 10 (clamped), 15 and 20 in units of 1e-5.
ModShapes ==
    {<<2, b, c, 1, 1>> : b \in 1..3, c \in 1..MaxChannels}
        \cup {<<2, 1, c, 2, 1, 1>> : c \in 1..MaxChannels}
ModEntries == {<<0, 0>>, <<9, 12>>, <<-12, 16>>}
ModInputs(shape) ==
    {[error |-> "none", shape |-> shape,
      at |-> [idx \in Indices(shape) |-> e[Tail(idx)][idx[1]]]] :
        e \in [Indices(Tail(shape)) -> ModEntries]}
\* The values b.data.uniform_(-2 / sqrt(channels), 0) draws, in the same units.
BiasVals == {-12, 0}

InitReluMod ==
    \E s \in ModShapes :
        \E x \in ModInputs(s), u \in [1..s[3] -> BiasVals] :
            call = [phase |-> "args", op |-> "ReLUCmplx_mod", channels |-> s[3],
                    x |-> x, bias |-> u]

\* module = ReLUCmplx(relu_type='mod', channels=channels); out = module(x):
\* forward is relu_cmplx_mod(x, b=module.b) with b of the shape the
\* constructor gave it.
ReLUModForward ==
    /\ call.phase = "args" /\ call.op = "ReLUCmplx_mod"
    /\ LET m == ReLUCmplx_init("mod", <<call.channels>>, FALSE)
           b == [error |-> "none", shape |-> m.parameters.b.shape,
                 at |-> [idx \in Indices(m.parameters.b.shape) |-> call.bias[idx[1]]]]
       IN  call' = [call EXCEPT !.phase = "done"]
                     @@ [out |-> relu_cmplx_mod(call.x, b)]
    /\ UNCHANGED <<cacheVars, conv, pooling, net>>

\* C23: on an input [2, B, C, H, W] ReLU variant 'mod' returns a tensor of the
\* input's shape in which the real and the imaginary component of every
\* element are the input's times relu(|x| + b) / |x|, with |x| the clamped
\* magnitude of the element and b the bias of the element's channel: the
\* factor is not negative, it is zero when |x| + b <= 0, and |x| is never zero.
C23_ModScalesByReluOfMagnitude ==
    (Returned("ReLUCmplx_mod") /\ Len(call.x.shape) = 5) =>
        /\ call.out.error = "none"
        /\ call.out.shape = call.x.shape
        /\ \A idx \in Indices(call.x.shape) :
              LET r == torch_sqrt(magnitude(call.x.at[<<1>> \o Tail(idx)],
                                            call.x.at[<<2>> \o Tail(idx)]))
                  v == r + call.bias[idx[3]]
                  f == IF v > 0 THEN v ELSE 0
              IN  /\ r > 0 /\ f >= 0
                  /\ call.out.at[idx] = [num |-> f * call.x.at[idx], den |-> r]
                  /\ v <= 0 => call.out.at[idx].num = 0

\* ---- segmentation.create_model and get_metrics_criterion.  A Python string
\* is the sequence of its characters.
\* sub in s
Contains(s, sub) ==
    \E i \in 0..(Len(s) - Len(sub)) : SubSeq(s, i + 1, i + Len(sub)) = sub

\* create_model.models: the classes by variant name.
models ==
    (<<"S", "F", "C">> :> "UNetIGCNCmplx")
    @@ (<<"S", "F", "C", "R", "e", "a", "l">> :> "UNetIGCN")
    @@ (<<"S", "t", "a", "n", "d", "a", "r", "d">> :> "UNetCmplx")
    @@ (<<"S", "t", "a", "n", "d", "a", "r", "d", "R", "e", "a", "l">> :> "UNet")
    @@ (<<"D", "A", "F">> :> "DAFStackSmall")
    @@ (<<"D", "A", "F", "M", "S">> :> "DAFMS")
    @@ (<<"D", "A", "F", "M", "S", "P", "l", "a", "i", "n">> :> "DAFMSPlain")
    @@ (<<"R", "C", "F">> :> "RCF")

\* create_model.scalings: the value of scale by the last character.
scalings == ("T" :> [kind |-> "True"]) @@ ("P" :> [kind |-> "parallel"])

\* The variant names given on the command line: a model name, with or
\* without a scaling suffix.
Variants == {n \o suf : n \in DOMAIN models, suf \in {<<>>, <<"T">>, <<"P">>}}

\* UNetIGCNCmplx.__init__ and UNetIGCN.__init__ store scale as it is given.
UNet_init(class, scale) == [class |-> class, preprocess |-> scale]

\* create_model(variant=variant, model_path=''): scale is False unless the
\* last character selects a scaling, which is then cut off the name; the
\* class is looked up by the name and constructed with scale=scale.
create_model(variant) ==
    LET last == variant[Len(variant)]
        suffixed == last \in DOMAIN scalings
        scale == IF suffixed THEN scalings[last] ELSE [kind |-> "False"]
        name == IF suffixed THEN SubSeq(variant, 1, Len(variant) - 1) ELSE variant
    IN  IF name \notin DOMAIN models
          THEN [error |-> "KeyError"]
          ELSE [error |-> "none", attention |-> Contains(name, <<"D", "A", "F">>),
                model |-> UNet_init(models[name], scale)]

\* The first statements of UNetIGCNCmplx.forward and UNetIGCN.forward: the
\* preprocessing is called unless the attribute is None; a bool or a str is
\* not callable.  inc is what the first layer is fed.
UNet_forward(model, x) ==
    IF model.preprocess.kind = "None"
      THEN [error |-> "none", preprocessed |-> FALSE, inc |-> x]
    ELSE IF model.preprocess.kind = "module"
      THEN [error |-> "none", preprocessed |-> TRUE, inc |-> <<"preprocess", x>>]
    ELSE [error |-> "TypeError", preprocessed |-> FALSE, inc |-> <<>>]

\* get_metrics_criterion(variant, denoise, binary): the test for 'DAF' and
\* the test for 'RCF' are two statements and the else branch belongs to the
\* second, which binds both names again in each of its branches.
get_metrics_criterion(variant, denoise, binary) ==
    LET first == IF Contains(variant, <<"D", "A", "F">>)
                   THEN [MetricsClass |-> "DAFMetric", criterion |-> "DAFLoss"]
                   ELSE [MetricsClass |-> "unbound", criterion |-> "unbound"]
        second == IF Contains(variant, <<"R", "C", "F">>)
                    THEN [MetricsClass |-> "RCFMetric", criterion |-> "RCFLoss"]
                  ELSE IF denoise
                    THEN [MetricsClass |-> "DenoisingTracker", criterion |-> "MSELoss"]
                  ELSE IF binary
                    THEN [MetricsClass |-> "SegmentationTracker",
                          criterion |-> "BCEWithLogitsLoss"]
                  ELSE [MetricsClass |-> "MultiClassSegmentationTracker",
                        criterion |-> "CrossEntropyLoss"]
    IN  [n \in DOMAIN first |-> second[n]]

InitCreateModel ==
    \E v \in Variants :
        call = [phase |-> "args", op |-> "create_model", variant |-> v]

InitMetrics ==
    \E v \in Variants, denoise \in BOOLEAN, binary \in BOOLEAN :
        call = [phase |-> "args", op |-> "get_metrics_criterion", variant |-> v,
                denoise |-> denoise, binary |-> binary]

\* model = create_model(save_dir, variant=variant, ...)
CreateModel ==
    /\ call.phase = "args" /\ call.op = "create_model"
    /\ LET m == create_model(call.variant) IN
       call' = [call EXCEPT !.phase = IF m.error = "none" THEN "built" ELSE "failed"]
                 @@ [made |-> m]
    /\ UNCHANGED <<cacheVars, conv, pooling, net>>

\* out = model(x) for the two classes of igcn/seg/models.py that keep scale
ModelForward ==
    /\ call.phase = "built" /\ call.op = "create_model"
    /\ call.made.model.class \in {"UNetIGCNCmplx", "UNetIGCN"}
    /\ call' = [call EXCEPT !.phase = "done"]
                 @@ [out |-> UNet_forward(call.made.model, "x")]
    /\ UNCHANGED <<cacheVars, conv, pooling, net>>

\* metrics_class, criterion = get_metrics_criterion(variant, denoise, binary)
GetMetricsCriterion ==
    /\ call.phase = "args" /\ call.op = "get_metrics_criterion"
    /\ call' = [call EXCEPT !.phase = "done"]
                 @@ [out |-> get_metrics_criterion(call.variant, call.denoise,
                                                   call.binary)]
    /\ UNCHANGED <<cacheVars, conv, pooling, net>>

\* C29: a model that create_model builds from a variant name without the
\* scaling suffix 'T' or 'P' has no preprocessing stage: forward of
\* UNetIGCNCmplx and of UNetIGCN runs without calling the preprocessing and
\* feeds the raw input to the first layer.
C29_NoSuffixNoPreprocessing ==
    (/\ call.op = "create_model" /\ call.phase = "done"
     /\ call.variant[Len(call.variant)] \notin {"T", "P"}) =>
        /\ call.out.error = "none"
        /\ ~call.out.preprocessed
        /\ call.out.inc = "x"

\* C30: get_metrics_criterion returns the DAF metric and loss for every
\* variant whose name contains 'DAF', the RCF metric and loss for every
\* variant whose name contains 'RCF', and the denoising, binary or
\* multi-class pair only for a variant that contains neither.
C30_MetricsByVariant ==
    Returned("get_metrics_criterion") =>
        LET daf == Contains(call.variant, <<"D", "A", "F">>)
            rcf == Contains(call.variant, <<"R", "C", "F">>)
            generic == {"DenoisingTracker", "SegmentationTracker",
                        "MultiClassSegmentationTracker"}
        IN  /\ daf => call.out = [MetricsClass |-> "DAFMetric", criterion |-> "DAFLoss"]
            /\ rcf => call.out = [MetricsClass |-> "RCFMetric", criterion |-> "RCFLoss"]
            /\ call.out.MetricsClass \in generic => (~daf /\ ~rcf)

\* ---- the specification of the calls
InitCmplx ==
    /\ InitCache({[g \in Orientations |-> <<0, 0>>]})
    /\ conv = NoConv
    /\ pooling = NoPooling
    /\ net = NoNet
    /\ \/ InitMult
       \/ InitConv
       \/ InitReLU
       \/ InitMagnitude
       \/ InitInitWeights
       \/ InitLoad
       \/ InitReluMod
       \/ InitCreateModel
       \/ InitMetrics

NextCmplx ==
    \/ CmplxMult
    \/ ConvCmplx
    \/ ReLUConstruct
    \/ ReLUForward
    \/ ReLUAgain
    \/ \E d \in {-1, 1} : ReLUTrain(d)
    \/ Magnitude
    \/ InitWeights
    \/ Load
    \/ ReLUModForward
    \/ CreateModel
    \/ ModelForward
    \/ GetMetricsCriterion

SpecCmplx == InitCmplx /\ [][NextCmplx]_vars

====
